---- MODULE Spec2Model ----
(***************************************************************************)
(* Model of the limit order matching engine:                               *)
(*   order_book.rs  OrderBook::add, the price-level FIFO matcher           *)
(*   wal.rs         the write-ahead log, the snapshot and the restore      *)
(*   main.rs        submit_order, the shutdown hook and startup            *)
(*                                                                         *)
(* The crash model is a process crash: bytes handed to the operating       *)
(* system by write_all survive, memory does not.  client_order_id is       *)
(* carried through every structure unchanged and read by no decision of    *)
(* the code; it is left out of the records.                                *)
(***************************************************************************)
EXTENDS Integers, Sequences, FiniteSets, TLC

(***************************************************************************)
(* Bounds of the model                                                     *)
(***************************************************************************)
\* greatest sequence number assigned in the behaviours of Spec (the engine
\* with crashes, I/O failures, shutdown and restart)
MaxSeq == 2
\* greatest sequence number assigned in the behaviours of SpecSubmit and
\* SpecBook (one process)
MaxAdds == 3

\* greatest sequence number assigned in the behaviours of SpecConc (two
\* server tasks running submit_order step by step)
MaxCalls == 3

\* orders accepted after the initial state in the behaviours of SpecTape
MaxTapeAdds == 4

\* orders accepted after the initial state in the behaviours of SpecRecent
MaxRecentAdds == 2

\* orders accepted after the initial state in the behaviours of SpecDepth
MaxDepthAdds == 2

\* limit prices and quantities of the valid requests of SpecBook
Prices == {0, 1, 2}
Qtys == {1, 2}

\* SpecRestore: the lines of the WAL file found at startup
MaxWalLines == 3

\* SpecPair: accepted orders on the two symbols
MaxPairAdds == 4

\* SpecCursor: accepted orders while a client follows a tape
MaxCursorAdds == 5

(***************************************************************************)
(* Program constants                                                       *)
(***************************************************************************)
MAX_TRADES_PER_SYMBOL == 10000

\* engine.v1 Side enum as the handler reads it (o.side is an i32)
SIDE_UNSPECIFIED == 0
SIDE_BUY == 1
SIDE_SELL == 2

(***************************************************************************)
(* Small helpers                                                           *)
(***************************************************************************)
SetMin(S) == CHOOSE x \in S : \A y \in S : x <= y
SetMax(S) == CHOOSE x \in S : \A y \in S : x >= y
MinOf(a, b) == IF a <= b THEN a ELSE b

EmptyMap == [k \in {} |-> <<>>]
MapPut(m, k, v) == [x \in (DOMAIN m) \cup {k} |-> IF x = k THEN v ELSE m[x]]
MapRemove(m, k) == [x \in (DOMAIN m) \ {k} |-> m[x]]

RECURSIVE SumQty(_)
SumQty(s) == IF s = <<>> THEN 0 ELSE Head(s).qty + SumQty(Tail(s))

\* str::trim on a symbol given as a sequence of characters
\* char::is_whitespace: the code points of the Unicode property White_Space.
\* A character is a string of one character, or the name "U+XXXX" of its
\* code point where a TLA+ string cannot hold it.
WhiteSpace ==
    {"\t", "\n", "U+000B", "\f", "\r", " ", "U+0085", "U+00A0", "U+1680",
     "U+2000", "U+2001", "U+2002", "U+2003", "U+2004", "U+2005", "U+2006",
     "U+2007", "U+2008", "U+2009", "U+200A", "U+2028", "U+2029", "U+202F",
     "U+205F", "U+3000"}
IsSpace(c) == c \in WhiteSpace
RECURSIVE TrimStart(_)
TrimStart(s) ==
    IF s = <<>> THEN s
    ELSE IF IsSpace(Head(s)) THEN TrimStart(Tail(s))
    ELSE s
RECURSIVE TrimEnd(_)
TrimEnd(s) ==
    IF s = <<>> THEN s
    ELSE IF IsSpace(s[Len(s)]) THEN TrimEnd(SubSeq(s, 1, Len(s) - 1))
    ELSE s
Trim(s) == TrimEnd(TrimStart(s))

(***************************************************************************)
(* order_book.rs                                                           *)
(***************************************************************************)
\* OrderBook::new: two empty BTreeMaps price -> VecDeque<RestingOrder>
NewBook == [bids |-> EmptyMap, asks |-> EmptyMap]

\* impl From<Order> for RestingOrder
RestingFromOrder(o) ==
    [seq |-> o.seq, side |-> o.side, price |-> o.price, remaining_qty |-> o.qty]

\* the RestingOrder add() builds for the unfilled part of the taker
MakeResting_full(order, remaining) ==
    [seq |-> order.seq, side |-> order.side, price |-> order.price,
     remaining_qty |-> order.qty]
MakeResting(order, remaining) ==
    [seq |-> order.seq, side |-> order.side, price |-> order.price,
     remaining_qty |-> remaining]

\* levels.entry(price).or_insert_with(VecDeque::new).push_back(ro)
PushBack_front(levels, price, ro) ==
    IF price \in DOMAIN levels
    THEN [levels EXCEPT ![price] = <<ro>> \o @]
    ELSE MapPut(levels, price, <<ro>>)
PushBack(levels, price, ro) ==
    IF price \in DOMAIN levels
    THEN [levels EXCEPT ![price] = Append(@, ro)]
    ELSE MapPut(levels, price, <<ro>>)

\* traded = remaining.min(front.remaining_qty)
Traded_front(remaining, front_qty) == front_qty
Traded(remaining, front_qty) == MinOf(remaining, front_qty)

\* the price a Fill carries: the price of the level being matched
FillPrice_taker(level_price, order) == order.price
FillPrice(level_price, order) == level_price

MakeFill(front, order, level_price, traded) ==
    [maker_seq |-> front.seq, taker_seq |-> order.seq,
     price |-> FillPrice(level_price, order), qty |-> traded]

\* if front.remaining_qty == 0 { q.pop_front(); continue; }: q2 is the queue
\* with the front maker reduced to 0
PopFilled_keep(q, q2) == q2
PopFilled(q, q2) == Tail(q)

\* the inner loop of add(): consume the FIFO queue of one level front-first.
\* On a front maker with remaining_qty <= 0 a build with debug assertions
\* panics in debug_assert!(front.remaining_qty > 0), leaving the queue as it
\* is at that point (panicked); a build without them pops the maker and goes
\* on.
RECURSIVE MatchQueue(_, _, _, _, _, _)
MatchQueue(q, remaining, fills, level_price, order, debug_assertions) ==
    IF ~(remaining > 0)
    THEN [q |-> q, remaining |-> remaining, fills |-> fills, panicked |-> FALSE]
    ELSE IF q = <<>>
    THEN [q |-> q, remaining |-> remaining, fills |-> fills, panicked |-> FALSE]
    ELSE LET front == Head(q) IN
        IF front.remaining_qty <= 0
        THEN IF debug_assertions
             THEN [q |-> q, remaining |-> remaining, fills |-> fills,
                   panicked |-> TRUE]
             ELSE MatchQueue(Tail(q), remaining, fills, level_price, order,
                             debug_assertions)
        ELSE LET traded == Traded(remaining, front.remaining_qty)
                 remaining2 == remaining - traded
                 front_qty2 == front.remaining_qty - traded
                 fills2 == Append(fills, MakeFill(front, order, level_price, traded))
                 q2 == <<[front EXCEPT !.remaining_qty = front_qty2]>> \o Tail(q)
             IN IF front_qty2 = 0
                THEN MatchQueue(PopFilled(q, q2), remaining2, fills2, level_price,
                                order, debug_assertions)
                ELSE IF remaining2 = 0
                THEN [q |-> q2, remaining |-> remaining2, fills |-> fills2,
                      panicked |-> FALSE]
                ELSE MatchQueue(q2, remaining2, fills2, level_price, order,
                                debug_assertions)

\* the crossing tests that end the outer loops
BuyCrosses_strict(price, best_ask_price) == price > best_ask_price
BuyCrosses(price, best_ask_price) == ~(price < best_ask_price)
SellCrosses(price, best_bid_price) == ~(price > best_bid_price)

\* self.asks.keys().next(): the smallest ask price
BestAsk_greatest(asks) == SetMax(DOMAIN asks)
BestAsk(asks) == SetMin(DOMAIN asks)
\* self.bids.keys().next_back(): the greatest bid price
BestBid(bids) == SetMax(DOMAIN bids)

\* the outer loop of the Buy arm: sweep the asks from the smallest price.
\* A panic of the inner loop ends the sweep with the levels as they are: the
\* levels emptied before are removed, the queue being matched is in place.
RECURSIVE MatchBuy(_, _, _, _, _)
MatchBuy(asks, remaining, fills, order, debug_assertions) ==
    IF ~(remaining > 0)
    THEN [levels |-> asks, remaining |-> remaining, fills |-> fills,
          panicked |-> FALSE]
    ELSE IF DOMAIN asks = {}
    THEN [levels |-> asks, remaining |-> remaining, fills |-> fills,
          panicked |-> FALSE]
    ELSE LET best_ask_price == BestAsk(asks) IN
        IF ~BuyCrosses(order.price, best_ask_price)
        THEN [levels |-> asks, remaining |-> remaining, fills |-> fills,
              panicked |-> FALSE]
        ELSE CHOOSE swept \in
                 { IF r.panicked
                   THEN [levels |-> [asks EXCEPT ![best_ask_price] = r.q],
                         remaining |-> r.remaining, fills |-> r.fills,
                         panicked |-> TRUE]
                   ELSE MatchBuy(IF r.q = <<>>
                                  THEN MapRemove(asks, best_ask_price)
                                  ELSE [asks EXCEPT ![best_ask_price] = r.q],
                                  r.remaining, r.fills, order, debug_assertions) :
                   r \in {MatchQueue(asks[best_ask_price], remaining, fills,
                                     best_ask_price, order, debug_assertions)} } : TRUE

\* the outer loop of the Sell arm: sweep the bids from the greatest price.
\* A panic of the inner loop ends the sweep with the levels as they are: the
\* levels emptied before are removed, the queue being matched is in place.
RECURSIVE MatchSell(_, _, _, _, _)
MatchSell(bids, remaining, fills, order, debug_assertions) ==
    IF ~(remaining > 0)
    THEN [levels |-> bids, remaining |-> remaining, fills |-> fills,
          panicked |-> FALSE]
    ELSE IF DOMAIN bids = {}
    THEN [levels |-> bids, remaining |-> remaining, fills |-> fills,
          panicked |-> FALSE]
    ELSE LET best_bid_price == BestBid(bids) IN
        IF ~SellCrosses(order.price, best_bid_price)
        THEN [levels |-> bids, remaining |-> remaining, fills |-> fills,
              panicked |-> FALSE]
        ELSE CHOOSE swept \in
                 { IF r.panicked
                   THEN [levels |-> [bids EXCEPT ![best_bid_price] = r.q],
                         remaining |-> r.remaining, fills |-> r.fills,
                         panicked |-> TRUE]
                   ELSE MatchSell(IF r.q = <<>>
                                  THEN MapRemove(bids, best_bid_price)
                                  ELSE [bids EXCEPT ![best_bid_price] = r.q],
                                  r.remaining, r.fills, order, debug_assertions) :
                   r \in {MatchQueue(bids[best_bid_price], remaining, fills,
                                     best_bid_price, order, debug_assertions)} } : TRUE

\* if remaining > 0 { ... push_back(RestingOrder { .. }) }
Rests_always(remaining) == TRUE
Rests(remaining) == remaining > 0

\* OrderBook::add: the book after the call and the fills it returns.  Where
\* a debug_assert! fails (order.qty > 0, order.price >= 0, a maker with
\* remaining_qty > 0) a build with debug assertions panics (panicked): book
\* is then what the book holds at the panic and no fill is returned.
add(book, order, debug_assertions) ==
    IF order.qty <= 0
    THEN [book |-> book, fills |-> <<>>, panicked |-> debug_assertions]
    ELSE IF order.price < 0
    THEN [book |-> book, fills |-> <<>>, panicked |-> debug_assertions]
    ELSE IF order.side = "Buy"
    THEN LET m == MatchBuy(book.asks, order.qty, <<>>, order, debug_assertions)
             bids2 == IF ~m.panicked /\ Rests(m.remaining)
                      THEN PushBack(book.bids, order.price, MakeResting(order, m.remaining))
                      ELSE book.bids
         IN [book |-> [bids |-> bids2, asks |-> m.levels],
             fills |-> IF m.panicked THEN <<>> ELSE m.fills,
             panicked |-> m.panicked]
    ELSE LET m == MatchSell(book.bids, order.qty, <<>>, order, debug_assertions)
             asks2 == IF ~m.panicked /\ Rests(m.remaining)
                      THEN PushBack(book.asks, order.price, MakeResting(order, m.remaining))
                      ELSE book.asks
         IN [book |-> [bids |-> m.levels, asks |-> asks2],
             fills |-> IF m.panicked THEN <<>> ELSE m.fills,
             panicked |-> m.panicked]

\* q.iter().map(|o| o.remaining_qty).sum()
LevelQty_front(q) == IF q = <<>> THEN 0 ELSE Head(q).remaining_qty
RECURSIVE LevelQty(_)
LevelQty(q) == IF q = <<>> THEN 0 ELSE Head(q).remaining_qty + LevelQty(Tail(q))

\* OrderBook::top_of_book: <<best_bid_price, best_bid_qty, best_ask_price,
\* best_ask_qty>>
top_of_book(book) ==
    LET bid == IF DOMAIN book.bids = {} THEN <<0, 0>>
               ELSE LET p == SetMax(DOMAIN book.bids) IN <<p, LevelQty(book.bids[p])>>
        ask == IF DOMAIN book.asks = {} THEN <<0, 0>>
               ELSE LET p == SetMin(DOMAIN book.asks) IN <<p, LevelQty(book.asks[p])>>
    IN <<bid[1], bid[2], ask[1], ask[2]>>

(***************************************************************************)
(* wal.rs: the files                                                       *)
(*                                                                         *)
(* The WAL file is a sequence of lines.  The bytes of a line are either    *)
(* exactly one complete serialized WalEntry ("object", with the entry), or *)
(* anything else the code can leave there ("garbage"): a serialized entry  *)
(* cut short by a failed or interrupted write_all, or an unterminated line *)
(* followed by the bytes of later writes.  No such line is a JSON          *)
(* document, so all of them are read alike.  A file that was not written   *)
(* by the engine can also hold lines of white space ("blank").             *)
(* open says that the last line has no "\n" yet: a file opened with        *)
(* append(true) continues it.  A file that does not exist reads as the     *)
(* empty file.                                                             *)
(***************************************************************************)
NoEntry == [seq |-> 0, symbol |-> <<>>, side |-> "", price |-> 0, qty |-> 0]
EmptyWal == [lines |-> <<>>, open |-> FALSE]

EntryLine(entry) == [bytes |-> "object", entry |-> entry]
GarbageLine == [bytes |-> "garbage", entry |-> NoEntry]
\* a line of white space only
BlankLine == [bytes |-> "blank", entry |-> NoEntry]

\* let line = line.trim(); if line.is_empty() { continue; }
IsBlank(line) == line.bytes = "blank"

\* write_all of bytes to the file: whole says whether they are one complete
\* serialized entry (else a proper prefix of one).  Bytes that continue an
\* unterminated line of white space read, once trimmed, as the bytes alone;
\* bytes that continue any other unterminated line give no JSON document.
WriteBytes(w, whole, entry) ==
    LET written == IF whole THEN EntryLine(entry) ELSE GarbageLine IN
    IF w.open
    THEN [lines |-> [w.lines EXCEPT ![Len(w.lines)] =
                        IF IsBlank(@) THEN written ELSE GarbageLine],
          open |-> TRUE]
    ELSE [lines |-> Append(w.lines, written), open |-> TRUE]

\* write_all(b"\n")
WriteNewline(w) == [lines |-> w.lines, open |-> FALSE]

\* Wal::append, by how far it gets:
\*   "ok"           line, "\n" and flush all succeed
\*   "fail_open"    create_dir_all or open fails, nothing is written
\*   "fail_line"    write_all(line) fails after part of the line
\*   "fail_newline" write_all(line) succeeds, write_all(b"\n") fails
AppendFailures == {"fail_open", "fail_line", "fail_newline"}
wal_append(w, entry, outcome) ==
    CASE outcome = "ok" -> WriteNewline(WriteBytes(w, TRUE, entry))
      [] outcome = "fail_open" -> w
      [] outcome = "fail_line" -> WriteBytes(w, FALSE, entry)
      [] outcome = "fail_newline" -> WriteBytes(w, TRUE, entry)

\* Wal::truncate_wal: recreate the file with length 0
truncate_wal(w) == EmptyWal

\* serde_json::from_str::<WalEntry>(line): Ok for one complete object and
\* nothing after it, Err (EOF while parsing, trailing characters) otherwise
ParseLine(line) ==
    IF line.bytes = "object"
    THEN [ok |-> TRUE, entry |-> line.entry]
    ELSE [ok |-> FALSE, entry |-> NoEntry]

(***************************************************************************)
(* wal.rs: snapshot                                                        *)
(***************************************************************************)
\* snapshot.json: present says that the file exists, parses that its bytes
\* are one serialized Snapshot
NoSnapshot == [present |-> FALSE, parses |-> TRUE, seq |-> 0, books |-> <<>>]
\* a file that serde_json::from_slice::<Snapshot> refuses
GarbageSnapshot == [present |-> TRUE, parses |-> FALSE, seq |-> 0, books |-> <<>>]

\* the Order record flatten_side emits for a resting order
OrderFromResting(ro) ==
    [seq |-> ro.seq, side |-> ro.side, price |-> ro.price, qty |-> ro.remaining_qty]

RECURSIVE QueueAsOrders_rev(_)
QueueAsOrders_rev(q) ==
    IF q = <<>> THEN <<>>
    ELSE QueueAsOrders_rev(Tail(q)) \o <<OrderFromResting(Head(q))>>
RECURSIVE QueueAsOrders(_)
QueueAsOrders(q) ==
    IF q = <<>> THEN <<>>
    ELSE <<OrderFromResting(Head(q))>> \o QueueAsOrders(Tail(q))

RECURSIVE FlattenFrom(_, _)
FlattenFrom(levels, prices) ==
    IF prices = {} THEN <<>>
    ELSE LET p == SetMin(prices)
         IN QueueAsOrders(levels[p]) \o FlattenFrom(levels, prices \ {p})

\* flatten_side: levels in ascending price, each level front to back
flatten_side(levels) == FlattenFrom(levels, DOMAIN levels)

\* the orders in which a HashMap of these keys can be iterated
RECURSIVE Orderings(_)
Orderings(S) ==
    IF S = {} THEN {<<>>}
    ELSE UNION {{<<x>> \o t : t \in Orderings(S \ {x})} : x \in S}

\* the Snapshot value write_snapshot serializes, for one iteration order
MakeSnapshot(st_seq, st_books, ord) ==
    [present |-> TRUE,
     parses |-> TRUE,
     seq |-> st_seq,
     books |-> [i \in 1..Len(ord) |->
                  [symbol |-> ord[i],
                   bids |-> flatten_side(st_books[ord[i]].bids),
                   asks |-> flatten_side(st_books[ord[i]].asks)]]]

\* levels.entry(o.price).or_insert_with(VecDeque::new).push_back(o.into())
SnapshotPush_front(levels, o) ==
    IF o.price \in DOMAIN levels
    THEN [levels EXCEPT ![o.price] = <<RestingFromOrder(o)>> \o @]
    ELSE MapPut(levels, o.price, <<RestingFromOrder(o)>>)
SnapshotPush(levels, o) == PushBack(levels, o.price, RestingFromOrder(o))

RECURSIVE RebuildSide(_, _)
RebuildSide(levels, orders) ==
    IF orders = <<>> THEN levels
    ELSE RebuildSide(SnapshotPush(levels, Head(orders)), Tail(orders))

RECURSIVE InsertBooks(_, _)
InsertBooks(bks, sbooks) ==
    IF sbooks = <<>> THEN bks
    ELSE LET b == Head(sbooks)
             book == [bids |-> RebuildSide(EmptyMap, b.bids),
                      asks |-> RebuildSide(EmptyMap, b.asks)]
         IN InsertBooks(MapPut(bks, b.symbol, book), Tail(sbooks))

\* apply_snapshot: seq and books of the state after loading snap
apply_snapshot(snap) ==
    [seq |-> snap.seq, books |-> InsertBooks(EmptyMap, snap.books)]

(***************************************************************************)
(* main.rs: the engine                                                     *)
(***************************************************************************)
VARIABLES
    seq,            \* EngineState.seq
    books,          \* EngineState.books: symbol -> OrderBook
    next_trade_id,  \* EngineState.next_trade_id
    trades,         \* EngineState.trades: symbol -> VecDeque<Trade>
    wal,            \* the WAL file
    snapshot,       \* snapshot.json
    phase,          \* "serving", "draining" (signal handled, requests in flight
                    \* still answered), "down" (process gone), "failed" (startup
                    \* aborted), "poisoned" (a handler panicked under the
                    \* mutex), "poisoned_draining" (the same, signal handled),
                    \* "hook_locked" and "hook_written" (inside the shutdown
                    \* hook, see HookHolds)
    end_kind,       \* while down: where the process ended ("idle": in no
                    \* handler, "in_submit", "in_hook")
    resp,           \* the response of the last submit_order call
    acked,          \* history: the entry of every successful call, in order
                    \* (its seq is the accepted_seq the call returned)
    applied,        \* history: the entries whose effect is in the books in memory
    snap_covers,    \* history: the entries whose effect is in snapshot.json
    last_accepted,  \* history: the greatest seq accepted so far, i.e. whose
                    \* entry reached the WAL whole in a call that did not fail
    calls,          \* the submit_order calls in flight, one per server task:
                    \* where each one is, its request and its seq
    apply_order,    \* history: the seq of the orders those calls applied to
                    \* the books, in the order of application
    query           \* the last read request and its response

mem == <<seq, books, next_trade_id, trades>>
disk == <<wal, snapshot>>
hist == <<acked, applied, snap_covers, last_accepted>>
vars == <<seq, books, next_trade_id, trades, wal, snapshot, phase, end_kind,
          resp, acked, applied, snap_covers, last_accepted,
          calls, apply_order, query>>
\* what the handlers modelled as one step leave alone
rest == <<calls, apply_order, query>>

\* the server tasks that run submit_order concurrently
Tasks == {1, 2}
NoCall == [pc |-> "idle", o |-> [symbol |-> <<>>, side |-> 0, price |-> 0, qty |-> 0],
           s |-> 0]
NoQuery == [kind |-> "none"]

\* the requests the model submits: symbols as typed (trimmed by the handler),
\* side as the i32 of the request
\* Spec: five valid requests (rest, cross at price 0, sweep two levels with a
\* remainder, a second symbol) and one request per validation failure
ValidRequests ==
    {[symbol |-> <<"A">>, side |-> SIDE_SELL, price |-> 1, qty |-> 1],
     [symbol |-> <<"A">>, side |-> SIDE_SELL, price |-> 0, qty |-> 1],
     [symbol |-> <<"A">>, side |-> SIDE_BUY, price |-> 1, qty |-> 2],
     [symbol |-> <<"A">>, side |-> SIDE_BUY, price |-> 0, qty |-> 1],
     [symbol |-> <<"\t", "B", "U+00A0">>, side |-> SIDE_BUY, price |-> 1, qty |-> 1]}
InvalidRequests ==
    {[symbol |-> <<"U+000B", "\t", "U+0085">>, side |-> SIDE_BUY, price |-> 1, qty |-> 1],
     [symbol |-> <<"A">>, side |-> SIDE_BUY, price |-> 1, qty |-> 0],
     [symbol |-> <<"A">>, side |-> SIDE_SELL, price |-> -1, qty |-> 1],
     [symbol |-> <<"A">>, side |-> SIDE_UNSPECIFIED, price |-> 1, qty |-> 1]}
Requests == ValidRequests \cup InvalidRequests
\* the request whose WAL append fails or is interrupted
ProbeRequests == {[symbol |-> <<"A">>, side |-> SIDE_BUY, price |-> 1, qty |-> 2]}
\* SpecBook: every side, price and quantity on one symbol, a second symbol,
\* and a side value outside the enum
BookRequests ==
    {[symbol |-> <<"A">>, side |-> sd, price |-> p, qty |-> q] :
        sd \in {SIDE_BUY, SIDE_SELL}, p \in Prices, q \in Qtys}
    \cup {[symbol |-> <<" ", "B", " ">>, side |-> SIDE_SELL, price |-> 1, qty |-> 1],
          [symbol |-> <<"A">>, side |-> 3, price |-> 1, qty |-> 1]}
    \cup InvalidRequests

NoResp == [status |-> "none", accepted_seq |-> 0, fills |-> <<>>, order |-> NoEntry]

\* the validation at the head of submit_order
Validate_qty(o) ==
    IF Trim(o.symbol) = <<>> THEN "symbol must be non-empty"
    ELSE IF o.qty < 0 THEN "qty must be > 0"
    ELSE IF o.price < 0 THEN "price must be >= 0"
    ELSE IF o.side = SIDE_UNSPECIFIED THEN "side must be BUY or SELL"
    ELSE "ok"
Validate(o) ==
    IF Trim(o.symbol) = <<>> THEN "symbol must be non-empty"
    ELSE IF o.qty <= 0 THEN "qty must be > 0"
    ELSE IF o.price < 0 THEN "price must be >= 0"
    ELSE IF o.side = SIDE_UNSPECIFIED THEN "side must be BUY or SELL"
    ELSE "ok"

\* EngineSvc::next_seq
next_seq(s) == s + 1

\* the roll back of st.seq when the WAL append failed
rollback_seq_none(s) == s
rollback_seq_twice(s) == s - 2
rollback_seq(s) == s - 1

\* EngineSvc::next_trade_id
next_trade_id_of(n) == n + 1

side_str(o) == IF o.side = SIDE_BUY THEN "BUY" ELSE "SELL"
book_side(o) == IF o.side = SIDE_BUY THEN "Buy" ELSE "Sell"
taker_side(o) == IF o.side = SIDE_BUY THEN SIDE_BUY ELSE SIDE_SELL

\* the WalEntry submit_order builds
MakeEntry(s, o) ==
    [seq |-> s, symbol |-> Trim(o.symbol), side |-> side_str(o),
     price |-> o.price, qty |-> o.qty]

\* the Order submit_order hands to OrderBook::add
MakeOrder(s, o) ==
    [seq |-> s, side |-> book_side(o), price |-> o.price, qty |-> o.qty]

\* EngineSvc::append_trade on one tape
RECURSIVE Evict(_)
Evict_newest(q) == IF Len(q) > MAX_TRADES_PER_SYMBOL THEN SubSeq(q, 1, MAX_TRADES_PER_SYMBOL) ELSE q
Evict(q) == IF Len(q) > MAX_TRADES_PER_SYMBOL THEN Evict(Tail(q)) ELSE q
append_trade_shared(tapes, symbol, trade) ==
    [x \in (DOMAIN tapes) \cup {symbol} |->
        Evict(Append(IF x \in DOMAIN tapes THEN tapes[x] ELSE <<>>, trade))]
append_trade(tapes, symbol, trade) ==
    LET q == IF symbol \in DOMAIN tapes THEN tapes[symbol] ELSE <<>>
    IN MapPut(tapes, symbol, Evict(Append(q, trade)))

\* the loop of submit_order over the fills: one Trade per Fill
RECURSIVE RecordTrades(_, _, _, _, _)
RecordTrades(fills, i, st, symbol, o) ==
    IF i > Len(fills) THEN st
    ELSE LET f == fills[i]
             trade_id == next_trade_id_of(st.next_trade_id)
             trade == [trade_id |-> trade_id, symbol |-> symbol, price |-> f.price,
                       qty |-> f.qty, maker_seq |-> f.maker_seq,
                       taker_seq |-> f.taker_seq, taker_side |-> taker_side(o)]
         IN RecordTrades(fills, i + 1,
                [next_trade_id |-> trade_id,
                 trades |-> append_trade(st.trades, symbol, trade)],
                symbol, o)

(***************************************************************************)
(* wal.rs: restore                                                         *)
(***************************************************************************)
BookSideOfStr_lenient(s) == IF s = "BUY" THEN "Buy" ELSE "Sell"
BookSideOfStr(s) ==
    CASE s = "BUY" -> "Buy"
      [] s = "SELL" -> "Sell"
      [] OTHER -> "invalid"

\* the skip test of the replay loop
SkipEntry(entry_seq, after_seq) == entry_seq <= after_seq

\* if entry.seq > st.seq { st.seq = entry.seq }
AdvanceSeq_keep(entry_seq, st_seq) == st_seq
AdvanceSeq(entry_seq, st_seq) == IF entry_seq > st_seq THEN entry_seq ELSE st_seq

\* let _fills = book.add(..): the replay drops the fills, the trade counter
\* and the tapes of the state stay as they are
ReplayFills_record(tr, fills, entry) ==
    RecordTrades(fills, 1, tr, entry.symbol,
                 [side |-> IF entry.side = "BUY" THEN SIDE_BUY ELSE SIDE_SELL])
ReplayFills(tr, fills, entry) == tr

\* the loop of replay_wal_after_seq_into from line i on; replayed lists the
\* entries handed to OrderBook::add (its length is the count the code
\* returns), refills the fills those calls returned.  st.debug says that the
\* build has debug assertions: the loop then ends in a panic (panicked) at
\* the first add whose debug_assert! fails.
RECURSIVE ReplayLines(_, _, _, _)
ReplayLines(lines, i, st, after_seq) ==
    IF i > Len(lines) THEN st
    ELSE IF IsBlank(lines[i]) THEN ReplayLines(lines, i + 1, st, after_seq)
    ELSE LET p == ParseLine(lines[i]) IN
        IF ~p.ok THEN [st EXCEPT !.ok = FALSE]
        ELSE IF SkipEntry(p.entry.seq, after_seq)
        THEN ReplayLines(lines, i + 1, st, after_seq)
        ELSE LET seq2 == AdvanceSeq(p.entry.seq, st.seq)
                 side == BookSideOfStr(p.entry.side)
             IN IF side = "invalid" THEN [st EXCEPT !.ok = FALSE, !.seq = seq2]
                ELSE LET book == IF p.entry.symbol \in DOMAIN st.books
                                 THEN st.books[p.entry.symbol] ELSE NewBook
                         r == add(book, [seq |-> p.entry.seq, side |-> side,
                                         price |-> p.entry.price, qty |-> p.entry.qty],
                                  st.debug)
                         tr == ReplayFills([next_trade_id |-> st.next_trade_id,
                                            trades |-> st.trades], r.fills, p.entry)
                     IN IF r.panicked
                        THEN [st EXCEPT !.panicked = TRUE, !.seq = seq2,
                                        !.books = MapPut(st.books, p.entry.symbol,
                                                         r.book)]
                        ELSE ReplayLines(lines, i + 1,
                                [st EXCEPT
                                    !.seq = seq2,
                                    !.books = MapPut(st.books, p.entry.symbol, r.book),
                                    !.replayed = Append(st.replayed, p.entry),
                                    !.refills = st.refills \o r.fills,
                                    !.next_trade_id = tr.next_trade_id,
                                    !.trades = tr.trades],
                                after_seq)

\* Wal::read_snapshot: Ok(None) without a file, Err on a file that is not a
\* serialized Snapshot
read_snapshot(snap) ==
    IF ~snap.present THEN [ok |-> TRUE, snap |-> NoSnapshot]
    ELSE IF ~snap.parses THEN [ok |-> FALSE, snap |-> NoSnapshot]
    ELSE [ok |-> TRUE, snap |-> snap]

\* replay_into_with_stats on EngineState::default(), in a build with or
\* without debug assertions
Restore(snap, w, debug_assertions) ==
    LET loaded == IF snap.present THEN apply_snapshot(snap)
                  ELSE [seq |-> 0, books |-> EmptyMap]
        snapshot_seq == IF snap.present THEN snap.seq ELSE 0
        fresh == [ok |-> TRUE, seq |-> 0, books |-> EmptyMap,
                  replayed |-> <<>>, refills |-> <<>>,
                  next_trade_id |-> 0, trades |-> EmptyMap,
                  debug |-> debug_assertions, panicked |-> FALSE]
    IN IF ~read_snapshot(snap).ok THEN [fresh EXCEPT !.ok = FALSE]
       ELSE ReplayLines(w.lines, 1,
                        [fresh EXCEPT !.seq = loaded.seq, !.books = loaded.books],
                        snapshot_seq)

\* the same without debug assertions: on the files the engine writes no
\* assertion of add can fail and the two builds agree
replay_into_with_stats(snap, w) == Restore(snap, w, FALSE)

\* the phases in which the shutdown hook holds the state mutex: before and
\* after its write_snapshot
HookHolds == {"hook_locked", "hook_written"}

\* the process takes calls: inside serve_with_shutdown, also while the
\* shutdown hook runs, after a handler has panicked under the state mutex
\* ("poisoned") and while the server drains after the hook has returned
Running ==
    phase \in {"serving", "draining", "poisoned", "poisoned_draining"} \cup HookHolds
\* self.state.lock() of with_state: an Err, on which expect() panics, once
\* the mutex is poisoned
MutexSound == phase \notin {"poisoned", "poisoned_draining"}

Init ==
    /\ seq = 0
    /\ books = EmptyMap
    /\ next_trade_id = 0
    /\ trades = EmptyMap
    /\ wal = EmptyWal
    /\ snapshot = NoSnapshot
    /\ phase = "serving"
    /\ end_kind = "none"
    /\ resp = NoResp
    /\ acked = <<>>
    /\ applied = {}
    /\ snap_covers = {}
    /\ last_accepted = 0
    /\ calls = [t \in Tasks |-> NoCall]
    /\ apply_order = <<>>
    /\ query = NoQuery

\* submit_order, a request that fails validation
SubmitInvalid(o) ==
    /\ Running
    /\ Validate(o) # "ok"
    /\ resp' = [NoResp EXCEPT !.status = "invalid_argument"]
    /\ UNCHANGED <<mem, disk, hist, phase, end_kind>>
    /\ UNCHANGED rest

\* submit_order, accepted: seq, WAL append, apply, trades, response
SubmitAccepted(o, limit) ==
    /\ Running
    /\ Validate(o) = "ok"
    /\ MutexSound
    /\ phase \notin HookHolds
    /\ seq < limit
    /\ LET s == next_seq(seq)
           symbol == Trim(o.symbol)
           entry == MakeEntry(s, o)
           book == IF symbol \in DOMAIN books THEN books[symbol] ELSE NewBook
           r == add(book, MakeOrder(s, o), FALSE)
           t == RecordTrades(r.fills, 1,
                    [next_trade_id |-> next_trade_id, trades |-> trades], symbol, o)
       IN /\ seq' = s
          /\ wal' = wal_append(wal, entry, "ok")
          /\ books' = MapPut(books, symbol, r.book)
          /\ next_trade_id' = t.next_trade_id
          /\ trades' = t.trades
          /\ resp' = [status |-> "ok", accepted_seq |-> s, fills |-> r.fills,
                      order |-> entry]
          /\ acked' = Append(acked, entry)
          /\ applied' = applied \cup {entry}
          /\ last_accepted' = s
    /\ UNCHANGED <<snapshot, snap_covers, phase, end_kind>>
    /\ UNCHANGED rest

\* submit_order in a build with debug assertions, when a debug_assert! of
\* add fails (a maker with remaining_qty <= 0, which only a snapshot file not
\* written by the engine brings in): the call has taken its seq and appended
\* its entry, then panics inside add, under with_state.  The book keeps what
\* the matching did before the panic; no trade is recorded and no response
\* is sent.  The mutex is poisoned; the shutdown hook, if it has returned
\* before (the call was in flight while the server drains), does not run
\* again.
\* (Without debug assertions the call is SubmitAccepted.)
SubmitPanic(o, limit) ==
    /\ Running
    /\ Validate(o) = "ok"
    /\ MutexSound
    /\ phase \notin HookHolds
    /\ seq < limit
    /\ LET s == next_seq(seq)
           symbol == Trim(o.symbol)
           book == IF symbol \in DOMAIN books THEN books[symbol] ELSE NewBook
       IN \E r \in {add(book, MakeOrder(s, o), TRUE)} :
          /\ r.panicked
          /\ seq' = s
          /\ wal' = wal_append(wal, MakeEntry(s, o), "ok")
          /\ books' = MapPut(books, symbol, r.book)
          /\ last_accepted' = s
    /\ phase' = IF phase = "draining" THEN "poisoned_draining" ELSE "poisoned"
    /\ resp' = NoResp
    /\ UNCHANGED <<next_trade_id, trades, snapshot, acked, applied,
                   snap_covers, end_kind>>
    /\ UNCHANGED rest

\* submit_order once the mutex is poisoned: a request that passes validation
\* panics in the expect() of with_state; nothing changes, no response
SubmitPoisoned(o) ==
    /\ Running
    /\ Validate(o) = "ok"
    /\ ~MutexSound
    /\ resp' = NoResp
    /\ UNCHANGED <<mem, disk, hist, phase, end_kind>>
    /\ UNCHANGED rest

\* submit_order, the WAL append fails: roll back seq, answer "unavailable"
SubmitUnavailable(o, outcome, limit) ==
    /\ Running
    /\ Validate(o) = "ok"
    /\ MutexSound
    /\ phase \notin HookHolds
    /\ seq < limit
    /\ LET s == next_seq(seq)
       IN /\ wal' = wal_append(wal, MakeEntry(s, o), outcome)
          /\ seq' = rollback_seq(s)
    /\ resp' = [NoResp EXCEPT !.status = "unavailable"]
    /\ UNCHANGED <<books, next_trade_id, trades, snapshot, hist, phase, end_kind>>
    /\ UNCHANGED rest

\* the process is killed inside submit_order:
\*   "before_append"  after next_seq, before Wal::append wrote anything
\*   "in_line"        inside write_all(line)
\*   "before_newline" after write_all(line), before write_all(b"\n")
\*   "after_append"   after Wal::append, before the response is sent
\* While phase = "down" the in-memory variables keep the state the dead
\* process had before the call.
SubmitCrashPoints == {"before_append", "in_line", "before_newline", "after_append"}
SubmitCrash(o, point) ==
    /\ Running
    /\ Validate(o) = "ok"
    /\ MutexSound
    /\ phase \notin HookHolds
    /\ seq < MaxSeq
    /\ LET entry == MakeEntry(next_seq(seq), o)
       IN /\ wal' = CASE point = "before_append" -> wal
                      [] point = "in_line" -> wal_append(wal, entry, "fail_line")
                      [] point = "before_newline" -> wal_append(wal, entry, "fail_newline")
                      [] point = "after_append" -> wal_append(wal, entry, "ok")
          /\ last_accepted' = IF point \in {"before_newline", "after_append"}
                               THEN entry.seq ELSE last_accepted
    /\ phase' = "down"
    /\ end_kind' = "in_submit"
    /\ resp' = NoResp
    /\ UNCHANGED <<mem, snapshot, acked, applied, snap_covers>>
    /\ UNCHANGED rest

\* the process is killed while no handler runs, possibly inside the shutdown
\* hook (the files are as the hook has left them so far)
Crash ==
    /\ Running
    /\ phase' = "down"
    /\ end_kind' = IF phase \in HookHolds THEN "in_hook" ELSE "idle"
    /\ resp' = NoResp
    /\ UNCHANGED <<mem, disk, hist>>
    /\ UNCHANGED rest

\* the shutdown hook: under the lock, write_snapshot, then truncate_wal
\*   "ok"            both succeed
\*   "fail_snapshot" write_snapshot fails (creating, writing or renaming the
\*                   temporary file): snapshot.json is not replaced
\*   "fail_truncate" write_snapshot succeeds, truncate_wal fails
HookOutcomes == {"ok", "fail_snapshot", "fail_truncate"}
ShutdownHook(outcome) ==
    /\ phase = "serving"
    /\ \E ord \in Orderings(DOMAIN books) :
        LET renamed == outcome \in {"ok", "fail_truncate"} IN
        /\ snapshot' = IF renamed THEN MakeSnapshot(seq, books, ord) ELSE snapshot
        /\ snap_covers' = IF renamed THEN applied ELSE snap_covers
    /\ wal' = IF outcome = "ok" THEN truncate_wal(wal) ELSE wal
    /\ phase' = "draining"
    /\ resp' = NoResp
    /\ UNCHANGED <<mem, end_kind, acked, applied, last_accepted>>
    /\ UNCHANGED rest

\* the process is killed inside the shutdown hook:
\*   "hook_before_rename"   while or after writing snapshot.json.tmp
\*   "hook_before_truncate" after the rename, before truncate_wal
HookCrashPoints == {"hook_before_rename", "hook_before_truncate"}
HookCrash(point) ==
    /\ phase = "serving"
    /\ \E ord \in Orderings(DOMAIN books) :
        LET renamed == point = "hook_before_truncate" IN
        /\ snapshot' = IF renamed THEN MakeSnapshot(seq, books, ord) ELSE snapshot
        /\ snap_covers' = IF renamed THEN applied ELSE snap_covers
    /\ phase' = "down"
    /\ end_kind' = "in_hook"
    /\ resp' = NoResp
    /\ UNCHANGED <<mem, wal, acked, applied, last_accepted>>
    /\ UNCHANGED rest

\* the shutdown signal once the mutex is poisoned: state_for_shutdown.lock()
\* is an Err, the hook writes no snapshot, leaves the WAL and returns.  The
\* server then drains: the calls in flight are still answered until main
\* returns (Exit).
HookSkipped ==
    /\ phase = "poisoned"
    /\ phase' = "poisoned_draining"
    /\ resp' = NoResp
    /\ UNCHANGED <<mem, disk, hist, end_kind>>
    /\ UNCHANGED rest

\* the server has drained and main returns
Exit ==
    /\ phase \in {"draining", "poisoned_draining"}
    /\ phase' = "down"
    /\ end_kind' = "idle"
    /\ resp' = NoResp
    /\ UNCHANGED <<mem, disk, hist>>
    /\ UNCHANGED rest

\* main: a new process restores snapshot + WAL into EngineState::default() and
\* serves, or aborts when the restore returns an error or panics on a
\* debug_assert! of add (in a build that has them)
Startup ==
    /\ phase = "down"
    /\ \E debug_assertions \in BOOLEAN :
       LET r == Restore(snapshot, wal, debug_assertions)
       IN /\ seq' = r.seq
          /\ books' = r.books
          /\ phase' = IF r.ok /\ ~r.panicked THEN "serving" ELSE "failed"
          /\ applied' = (IF snapshot.present THEN snap_covers ELSE {})
                          \cup {r.replayed[i] : i \in 1..Len(r.replayed)}
          /\ next_trade_id' = r.next_trade_id
          /\ trades' = r.trades
    /\ end_kind' = "none"
    /\ resp' = NoResp
    /\ UNCHANGED <<disk, acked, snap_covers, last_accepted>>
    /\ UNCHANGED rest

Next ==
    \/ \E o \in Requests : SubmitInvalid(o)
    \/ \E o \in Requests : SubmitAccepted(o, MaxSeq)
    \/ \E o \in ProbeRequests, outcome \in AppendFailures :
          SubmitUnavailable(o, outcome, MaxSeq)
    \/ \E o \in ProbeRequests, point \in SubmitCrashPoints : SubmitCrash(o, point)
    \/ Crash
    \/ \E outcome \in HookOutcomes : ShutdownHook(outcome)
    \/ \E point \in HookCrashPoints : HookCrash(point)
    \/ Exit
    \/ Startup

Spec == Init /\ [][Next]_vars

\* one process from the empty engine: submit_order calls, some of them with
\* a failing WAL append
NextSubmit ==
    \/ \E o \in Requests : SubmitInvalid(o)
    \/ \E o \in Requests : SubmitAccepted(o, MaxAdds)
    \/ \E o \in Requests, outcome \in AppendFailures :
          SubmitUnavailable(o, outcome, MaxAdds)

SpecSubmit == Init /\ [][NextSubmit]_vars

\* one process from the empty engine and a WAL that never fails: the matcher
\* on a richer set of orders
NextBook ==
    \/ \E o \in BookRequests : SubmitInvalid(o)
    \/ \E o \in BookRequests : SubmitAccepted(o, MaxAdds)

SpecBook == Init /\ [][NextBook]_vars

(***************************************************************************)
(* main.rs: the read handlers                                              *)
(***************************************************************************)
\* the symbols the read requests name: a symbol with a book, one typed with
\* blanks around it, one the engine never saw, and a blank one
QuerySymbols == {<<"A">>, <<"U+00A0", "B", "\n">>, <<"C">>, <<"\r", "U+000B">>}

\* get_top_of_book.  A request with a blank symbol is answered before
\* with_state; once the mutex is poisoned every other one panics in the
\* expect() of with_state and the caller gets no response ("panicked").
GetTopOfBook(sym) ==
    /\ Running
    /\ Trim(sym) = <<>> \/ phase \notin HookHolds
    /\ LET symbol == Trim(sym)
       IN query' =
            IF symbol = <<>>
            THEN [kind |-> "top_of_book", symbol |-> sym, status |-> "invalid_argument"]
            ELSE IF ~MutexSound
            THEN [kind |-> "top_of_book", symbol |-> sym, status |-> "panicked"]
            ELSE [kind |-> "top_of_book", symbol |-> sym, status |-> "ok",
                  top |-> IF symbol \in DOMAIN books
                          THEN top_of_book(books[symbol])
                          ELSE <<0, 0, 0, 0>>]
    /\ UNCHANGED <<mem, disk, hist, phase, end_kind, resp, calls, apply_order>>

\* one process from the empty engine: orders and reads of the top of book
NextRead ==
    \/ \E o \in Requests : SubmitInvalid(o)
    \/ \E o \in Requests : SubmitAccepted(o, MaxAdds)
    \/ \E sym \in QuerySymbols : GetTopOfBook(sym)

SpecRead == Init /\ [][NextRead]_vars

(***************************************************************************)
(* main.rs: the trade tapes and get_recent_trades                          *)
(***************************************************************************)
DEFAULT_TRADES_LIMIT == 50
MAX_TRADES_LIMIT == 1000

\* let mut limit = if r.limit <= 0 { 50 } else { r.limit as usize };
\* if limit > MAX_TRADES_LIMIT { limit = MAX_TRADES_LIMIT }
effective_limit(limit) ==
    LET l == IF limit <= 0 THEN DEFAULT_TRADES_LIMIT ELSE limit
    IN IF l > MAX_TRADES_LIMIT THEN MAX_TRADES_LIMIT ELSE l

\* the scan of the tape: push every trade with trade_id > after_trade_id,
\* break once out.len() >= limit
ScanTape_last(q, after_trade_id, limit) ==
    LET m == SelectSeq(q, LAMBDA t : t.trade_id > after_trade_id)
    IN IF Len(m) >= limit THEN SubSeq(m, Len(m) - limit + 1, Len(m)) ELSE m
ScanTape_inclusive(q, after_trade_id, limit) ==
    LET m == SelectSeq(q, LAMBDA t : t.trade_id >= after_trade_id)
    IN IF Len(m) >= limit THEN SubSeq(m, 1, limit) ELSE m
ScanTape(q, after_trade_id, limit) ==
    LET m == SelectSeq(q, LAMBDA t : t.trade_id > after_trade_id)
    IN IF Len(m) >= limit THEN SubSeq(m, 1, limit) ELSE m

\* the closure of get_recent_trades: (trades, last_trade_id)
recent_trades(tapes, symbol, after_trade_id, limit) ==
    IF symbol \notin DOMAIN tapes
    THEN [trades |-> <<>>, last_trade_id |-> after_trade_id]
    ELSE LET out == ScanTape(tapes[symbol], after_trade_id, limit)
         IN [trades |-> out,
             last_trade_id |-> IF out = <<>> THEN after_trade_id
                               ELSE out[Len(out)].trade_id]

\* get_recent_trades
GetRecentTrades(sym, after_trade_id, limit) ==
    /\ Running
    /\ Trim(sym) = <<>> \/ phase \notin HookHolds
    /\ LET symbol == Trim(sym)
           r == recent_trades(trades, symbol, after_trade_id, effective_limit(limit))
       IN query' =
            IF symbol = <<>>
            THEN [kind |-> "recent_trades", symbol |-> sym,
                  after_trade_id |-> after_trade_id, limit |-> limit,
                  status |-> "invalid_argument"]
            ELSE IF ~MutexSound
            THEN [kind |-> "recent_trades", symbol |-> sym,
                  after_trade_id |-> after_trade_id, limit |-> limit,
                  status |-> "panicked"]
            ELSE [kind |-> "recent_trades", symbol |-> sym,
                  after_trade_id |-> after_trade_id, limit |-> limit,
                  status |-> "ok", trades |-> r.trades,
                  last_trade_id |-> r.last_trade_id]
    /\ UNCHANGED <<mem, disk, hist, phase, end_kind, resp, calls, apply_order>>

\* The engine after 2n accepted orders on one symbol, a sell of 1 at price 1
\* followed by a buy of 1 at price 1, n times over: n trades on the tape,
\* the book empty again.  The histories acked and applied list the calls made
\* after this state.
LoadSymbol == <<"A">>
LoadOrder(s) ==
    [symbol |-> LoadSymbol, side |-> IF s % 2 = 1 THEN SIDE_SELL ELSE SIDE_BUY,
     price |-> 1, qty |-> 1]
LoadEntry(s) == MakeEntry(s, LoadOrder(s))
LoadFill(i) == [maker_seq |-> (2 * i) - 1, taker_seq |-> 2 * i, price |-> 1, qty |-> 1]
LoadTrade(i) ==
    [trade_id |-> i, symbol |-> LoadSymbol, price |-> 1, qty |-> 1,
     maker_seq |-> (2 * i) - 1, taker_seq |-> 2 * i, taker_side |-> SIDE_BUY]
LoadedMem(n) ==
    /\ seq = 2 * n
    /\ books = IF n = 0 THEN EmptyMap ELSE MapPut(EmptyMap, LoadSymbol, NewBook)
    /\ next_trade_id = n
    /\ trades = IF n = 0 THEN EmptyMap
                ELSE MapPut(EmptyMap, LoadSymbol, [i \in 1..n |-> LoadTrade(i)])
    /\ end_kind = "none"
    /\ acked = <<>>
    /\ applied = {}
    /\ snap_covers = {}
    /\ last_accepted = 2 * n
    /\ calls = [t \in Tasks |-> NoCall]
    /\ apply_order = <<>>
    /\ query = NoQuery

\* serving, right after the last of the 2n calls: 2n lines in the WAL
InitLoaded(n) ==
    /\ LoadedMem(n)
    /\ wal = [lines |-> [s \in 1..(2 * n) |-> EntryLine(LoadEntry(s))], open |-> FALSE]
    /\ snapshot = NoSnapshot
    /\ phase = "serving"
    /\ resp = IF n = 0 THEN NoResp
              ELSE [status |-> "ok", accepted_seq |-> 2 * n, fills |-> <<LoadFill(n)>>,
                    order |-> LoadEntry(2 * n)]

\* draining, right after the shutdown hook that followed the 2n calls: the
\* snapshot written, the WAL truncated, the calls in flight still served
InitDrained(n) ==
    /\ LoadedMem(n)
    /\ wal = truncate_wal(EmptyWal)
    /\ \E ord \in Orderings(DOMAIN books) : snapshot = MakeSnapshot(seq, books, ord)
    /\ phase = "draining"
    /\ resp = NoResp

\* the load a behaviour started from
LoadOf(loads) == SetMax({n \in loads : 2 * n <= seq})

\* the requests of the tape specifications: two fills in one call, a second
\* symbol, and a side value outside the enum
TapeRequests ==
    {[symbol |-> <<"A">>, side |-> SIDE_SELL, price |-> 1, qty |-> 1],
     [symbol |-> <<"A">>, side |-> SIDE_BUY, price |-> 1, qty |-> 2],
     [symbol |-> <<" ", "B", " ">>, side |-> SIDE_SELL, price |-> 1, qty |-> 1],
     [symbol |-> <<" ", "B", " ">>, side |-> SIDE_BUY, price |-> 1, qty |-> 1],
     [symbol |-> <<"A">>, side |-> 3, price |-> 0, qty |-> 1]}

\* one process, from the empty engine or from a tape one trade short of full
\* in an engine that drains
TapeLoads == {0, MAX_TRADES_PER_SYMBOL - 1}
InitTape == InitLoaded(0) \/ InitDrained(MAX_TRADES_PER_SYMBOL - 1)
NextTape ==
    \E o \in TapeRequests :
        SubmitAccepted(o, (2 * LoadOf(TapeLoads)) + MaxTapeAdds)

SpecTape == InitTape /\ [][NextTape]_vars

\* one process, orders on one symbol and reads of the recent trades of that
\* symbol and of one that never traded, from the empty engine or from a tape
\* longer than the largest answer
RecentLoads == {0, MAX_TRADES_LIMIT + 2}
RecentRequests ==
    {[symbol |-> <<"A">>, side |-> SIDE_SELL, price |-> 1, qty |-> 1],
     [symbol |-> <<"A">>, side |-> SIDE_BUY, price |-> 1, qty |-> 2]}
RecentSymbols == {<<" ", "A">>, <<"B">>, <<" ">>}
RecentAfter == {0, 1, 2 * MAX_TRADES_LIMIT}
RecentLimits == {0, 2, MAX_TRADES_LIMIT, MAX_TRADES_LIMIT + 1}
InitRecent == \E n \in RecentLoads : InitLoaded(n)
NextRecent ==
    \/ \E o \in RecentRequests :
           SubmitAccepted(o, (2 * LoadOf(RecentLoads)) + MaxRecentAdds)
    \/ \E sym \in RecentSymbols, a \in RecentAfter, l \in RecentLimits :
           GetRecentTrades(sym, a, l)

SpecRecent == InitRecent /\ [][NextRecent]_vars


(***************************************************************************)
(* main.rs: get_book_depth                                                 *)
(***************************************************************************)
DEFAULT_DEPTH_LEVELS == 10
MAX_DEPTH_LEVELS == 100

\* let mut levels = if r.levels <= 0 { 10 } else { r.levels as usize };
\* if levels > 100 { levels = 100 }
effective_levels(levels) ==
    LET l == IF levels <= 0 THEN DEFAULT_DEPTH_LEVELS ELSE levels
    IN IF l > MAX_DEPTH_LEVELS THEN MAX_DEPTH_LEVELS ELSE l

\* the keys of a BTreeMap<i64, _> in the order iter() yields them: ascending
KeysAscending(side) ==
    IF DOMAIN side = {} THEN <<>>
    ELSE LET lo == SetMin(DOMAIN side)
             hi == SetMax(DOMAIN side)
         IN SelectSeq([i \in 1..(hi - lo + 1) |-> lo + i - 1],
                      LAMBDA p : p \in DOMAIN side)

\* side.iter().map(|(price, q)| PriceLevel{price, qty: sum})
IterLevels(side) ==
    LET keys == KeysAscending(side)
    IN [i \in 1..Len(keys) |->
            [price |-> keys[i], qty |-> LevelQty(side[keys[i]])]]

\* .rev() on the bids, nothing on the asks
Rev(s) == [i \in 1..Len(s) |-> s[Len(s) + 1 - i]]
DepthOrder_forward(s, is_bid) == s
DepthOrder(s, is_bid) == IF is_bid THEN Rev(s) ELSE s

\* .take(levels).collect()
Take(s, n) == SubSeq(s, 1, MinOf(n, Len(s)))

DepthSide(side, is_bid, levels) ==
    Take(DepthOrder(IterLevels(side), is_bid), levels)

\* the closure of get_book_depth: (bids, asks)
book_depth(bks, symbol, levels) ==
    IF symbol \notin DOMAIN bks THEN [bids |-> <<>>, asks |-> <<>>]
    ELSE [bids |-> DepthSide(bks[symbol].bids, TRUE, levels),
          asks |-> DepthSide(bks[symbol].asks, FALSE, levels)]

\* get_book_depth
GetBookDepth(sym, levels) ==
    /\ Running
    /\ Trim(sym) = <<>> \/ phase \notin HookHolds
    /\ LET symbol == Trim(sym)
           r == book_depth(books, symbol, effective_levels(levels))
       IN query' =
            IF symbol = <<>>
            THEN [kind |-> "book_depth", symbol |-> sym, levels |-> levels,
                  status |-> "invalid_argument"]
            ELSE IF ~MutexSound
            THEN [kind |-> "book_depth", symbol |-> sym, levels |-> levels,
                  status |-> "panicked"]
            ELSE [kind |-> "book_depth", symbol |-> sym, levels |-> levels,
                  status |-> "ok", bids |-> r.bids, asks |-> r.asks]
    /\ UNCHANGED <<mem, disk, hist, phase, end_kind, resp, calls, apply_order>>

\* The engine after 2n accepted orders on one symbol that built a ladder: n
\* buys of 1 at the prices 1..n, then n sells of 1 at the prices n+1..2n.
\* Nothing crossed: n bid levels, n ask levels, no trade.
LadderOrder(s, n) ==
    [symbol |-> LoadSymbol, side |-> IF s <= n THEN SIDE_BUY ELSE SIDE_SELL,
     price |-> s, qty |-> 1]
LadderEntry(s, n) == MakeEntry(s, LadderOrder(s, n))
LadderLevel(s, n) == <<MakeResting(MakeOrder(s, LadderOrder(s, n)), 1)>>
InitLadder(n) ==
    /\ seq = 2 * n
    /\ books = IF n = 0 THEN EmptyMap
               ELSE MapPut(EmptyMap, LoadSymbol,
                           [bids |-> [p \in 1..n |-> LadderLevel(p, n)],
                            asks |-> [p \in (n + 1)..(2 * n) |-> LadderLevel(p, n)]])
    /\ next_trade_id = 0
    /\ trades = EmptyMap
    /\ wal = [lines |-> [s \in 1..(2 * n) |-> EntryLine(LadderEntry(s, n))],
              open |-> FALSE]
    /\ snapshot = NoSnapshot
    /\ phase = "serving"
    /\ end_kind = "none"
    /\ resp = IF n = 0 THEN NoResp
              ELSE [status |-> "ok", accepted_seq |-> 2 * n, fills |-> <<>>,
                    order |-> LadderEntry(2 * n, n)]
    /\ acked = [s \in 1..(2 * n) |-> LadderEntry(s, n)]
    /\ applied = {LadderEntry(s, n) : s \in 1..(2 * n)}
    /\ snap_covers = {}
    /\ last_accepted = 2 * n
    /\ calls = [t \in Tasks |-> NoCall]
    /\ apply_order = <<>>
    /\ query = NoQuery

\* the requests of SpecDepth around the top of a ladder of n levels a side:
\* join the best bid level, take the best ask level, take the best bid level
\* and rest the remainder as the new best ask
DepthRequests(n) ==
    {[symbol |-> <<"A">>, side |-> SIDE_BUY, price |-> n, qty |-> 1],
     [symbol |-> <<"A">>, side |-> SIDE_BUY, price |-> n + 1, qty |-> 1],
     [symbol |-> <<"A">>, side |-> SIDE_SELL, price |-> n, qty |-> 2]}

\* one process, orders and reads of the depth, from the empty engine or from
\* a ladder with more levels a side than the largest answer
DepthLoads == {0, MAX_DEPTH_LEVELS + 1}
DepthSymbols == {<<" ", "A">>, <<"B">>, <<" ">>}
DepthLevels == {0, 2, MAX_DEPTH_LEVELS + 1}
InitDepth == \E n \in DepthLoads : InitLadder(n)
NextDepth ==
    \/ \E o \in DepthRequests(LoadOf(DepthLoads)) :
           SubmitAccepted(o, (2 * LoadOf(DepthLoads)) + MaxDepthAdds)
    \/ \E sym \in DepthSymbols, l \in DepthLevels : GetBookDepth(sym, l)

SpecDepth == InitDepth /\ [][NextDepth]_vars

(***************************************************************************)
(* main.rs: startup on files of any content                                *)
(***************************************************************************)
\* the entries the files hold: two orders that rest, one that crosses the
\* second, two entries whose side is neither "BUY" nor "SELL", and one with
\* qty 0
RestoreEntries ==
    {[seq |-> 1, symbol |-> <<"A">>, side |-> "BUY", price |-> 1, qty |-> 1],
     [seq |-> 2, symbol |-> <<"A">>, side |-> "SELL", price |-> 2, qty |-> 1],
     [seq |-> 3, symbol |-> <<"A">>, side |-> "BUY", price |-> 2, qty |-> 1],
     [seq |-> 2, symbol |-> <<"A">>, side |-> "HOLD", price |-> 1, qty |-> 1],
     [seq |-> 3, symbol |-> <<"A">>, side |-> "HOLD", price |-> 1, qty |-> 1],
     [seq |-> 3, symbol |-> <<"A">>, side |-> "SELL", price |-> 1, qty |-> 0]}

\* the lines a WAL file holds
RestoreLines == {EntryLine(e) : e \in RestoreEntries} \cup {GarbageLine, BlankLine}

\* the entries snapshot.json covers when it was written at seq 2
CoveredEntries == {e \in RestoreEntries : e.seq <= 2 /\ e.side \in {"BUY", "SELL"}}

\* the books after the two resting orders
CoveredBooks ==
    LET b1 == add(NewBook, [seq |-> 1, side |-> "Buy", price |-> 1, qty |-> 1], FALSE).book
        b2 == add(b1, [seq |-> 2, side |-> "Sell", price |-> 2, qty |-> 1], FALSE).book
    IN MapPut(EmptyMap, <<"A">>, b2)

\* a Snapshot file not written by the engine: behind the best bid there is
\* a bid of qty 0
ZeroQtySnapshot ==
    [present |-> TRUE, parses |-> TRUE, seq |-> 2,
     books |-> <<[symbol |-> <<"A">>,
                  bids |-> <<[seq |-> 1, side |-> "Buy", price |-> 1, qty |-> 0],
                             [seq |-> 2, side |-> "Buy", price |-> 2, qty |-> 1]>>,
                  asks |-> <<>>]>>]

\* snapshot.json: absent, written by write_snapshot at seq 2, holding an
\* order of qty 0, or not a Snapshot
RestoreSnapshots ==
    {NoSnapshot, MakeSnapshot(2, CoveredBooks, <<<<"A">>>>), ZeroQtySnapshot,
     GarbageSnapshot}

\* the WAL files of at most MaxWalLines lines
WalFiles ==
    UNION {[1..n -> RestoreLines] : n \in 0..MaxWalLines}

InitRestore ==
    /\ seq = 0
    /\ books = EmptyMap
    /\ next_trade_id = 0
    /\ trades = EmptyMap
    /\ \E lines \in WalFiles, open \in BOOLEAN :
          /\ open => lines # <<>>
          /\ wal = [lines |-> lines, open |-> open]
    /\ snapshot \in RestoreSnapshots
    /\ phase = "down"
    /\ end_kind = "idle"
    /\ resp = NoResp
    /\ acked = <<>>
    /\ applied = {}
    /\ snap_covers = IF snapshot.present /\ snapshot.parses THEN CoveredEntries ELSE {}
    /\ last_accepted = 0
    /\ calls = [t \in Tasks |-> NoCall]
    /\ apply_order = <<>>
    /\ query = NoQuery

\* the requests and the reads made of the process that came up: a sell that
\* fills against the best bid alone, a sell that goes on to the next level,
\* and the requests that fail validation on the symbol and on the qty; reads
\* of a symbol and of a blank
RestoreRequests ==
    {[symbol |-> <<"A">>, side |-> SIDE_SELL, price |-> 1, qty |-> 1],
     [symbol |-> <<"A">>, side |-> SIDE_SELL, price |-> 1, qty |-> 2]}
RestoreSymbols == {<<"A">>, <<"U+0085">>}

\* the first startup on the files, then one submit_order that reaches the
\* book (possibly in flight while the server drains), calls that do not,
\* reads, the shutdown signal, and the end of a process whose mutex is
\* poisoned: the calls answered while the server drains and the return of
\* main
NextRestore ==
    \/ last_accepted = 0 /\ Startup
    \/ \E o \in RestoreRequests : acked = <<>> /\ SubmitAccepted(o, seq + 1)
    \/ \E o \in RestoreRequests : acked = <<>> /\ SubmitPanic(o, seq + 1)
    \/ \E o \in RestoreRequests : SubmitPoisoned(o)
    \/ \E o \in {r \in InvalidRequests : r.side = SIDE_BUY} : SubmitInvalid(o)
    \/ \E sym \in RestoreSymbols : GetTopOfBook(sym)
    \/ \E outcome \in HookOutcomes : ShutdownHook(outcome)
    \/ HookSkipped
    \/ phase = "poisoned_draining" /\ Exit

SpecRestore == InitRestore /\ [][NextRestore]_vars

(***************************************************************************)
(* main.rs: submit_order step by step, run by concurrent server tasks      *)
(***************************************************************************)
\* the positions of a call inside the closure given to with_state, i.e.
\* while it holds the state mutex
InClosure == {"locked", "has_seq", "appended"}

\* self.state.lock(): the mutex can be taken when no call holds it
LockFree_always(cs) == TRUE
LockFree(cs) == \A t \in DOMAIN cs : cs[t].pc \notin InClosure

\* a task receives a request; validation runs before the lock is taken
CallBegin(t, o) ==
    /\ phase = "serving"
    /\ calls[t].pc = "idle"
    /\ Validate(o) = "ok"
    /\ seq + Cardinality({u \in Tasks : calls[u].pc \in {"validated", "locked"}})
          < MaxCalls
    /\ calls' = [calls EXCEPT ![t] = [pc |-> "validated", o |-> o, s |-> 0]]
    /\ UNCHANGED <<mem, disk, hist, phase, end_kind, resp, apply_order, query>>

\* with_state: the task takes the state mutex
CallLock(t) ==
    /\ calls[t].pc = "validated"
    /\ LockFree(calls)
    /\ calls' = [calls EXCEPT ![t].pc = "locked"]
    /\ UNCHANGED <<mem, disk, hist, phase, end_kind, resp, apply_order, query>>

\* let seq = Self::next_seq(st)
CallSeq(t) ==
    /\ calls[t].pc = "locked"
    /\ seq' = next_seq(seq)
    /\ calls' = [calls EXCEPT ![t].pc = "has_seq", ![t].s = seq']
    /\ UNCHANGED <<books, next_trade_id, trades, disk, hist, phase, end_kind,
                   resp, apply_order, query>>

\* self.wal.append(&entry): on success the call goes on, on failure it rolls
\* seq back, leaves the closure and answers "unavailable"
ConcAppendOutcomes == {"ok"} \cup AppendFailures
CallAppend(t, outcome) ==
    /\ calls[t].pc = "has_seq"
    /\ wal' = wal_append(wal, MakeEntry(calls[t].s, calls[t].o), outcome)
    /\ IF outcome = "ok"
       THEN /\ calls' = [calls EXCEPT ![t].pc = "appended"]
            /\ last_accepted' = IF calls[t].s > last_accepted
                                 THEN calls[t].s ELSE last_accepted
            /\ UNCHANGED <<seq, resp>>
       ELSE /\ seq' = rollback_seq(seq)
            /\ calls' = [calls EXCEPT ![t] = NoCall]
            /\ resp' = [NoResp EXCEPT !.status = "unavailable"]
            /\ UNCHANGED last_accepted
    /\ UNCHANGED <<books, next_trade_id, trades, snapshot, acked, applied,
                   snap_covers, phase, end_kind, apply_order, query>>

\* book.add, the trades, the end of the closure (the mutex is released) and
\* the response
CallApply(t) ==
    /\ calls[t].pc = "appended"
    /\ LET o == calls[t].o
           s == calls[t].s
           symbol == Trim(o.symbol)
           entry == MakeEntry(s, o)
           book == IF symbol \in DOMAIN books THEN books[symbol] ELSE NewBook
           r == add(book, MakeOrder(s, o), FALSE)
           t2 == RecordTrades(r.fills, 1,
                     [next_trade_id |-> next_trade_id, trades |-> trades], symbol, o)
       IN /\ books' = MapPut(books, symbol, r.book)
          /\ next_trade_id' = t2.next_trade_id
          /\ trades' = t2.trades
          /\ resp' = [status |-> "ok", accepted_seq |-> s, fills |-> r.fills,
                      order |-> entry]
          /\ acked' = Append(acked, entry)
          /\ applied' = applied \cup {entry}
          /\ apply_order' = Append(apply_order, s)
    /\ calls' = [calls EXCEPT ![t] = NoCall]
    /\ UNCHANGED <<seq, disk, snap_covers, last_accepted, phase, end_kind, query>>

NextConc ==
    \/ \E o \in Requests : SubmitInvalid(o)
    \/ \E t \in Tasks, o \in ValidRequests : CallBegin(t, o)
    \/ \E t \in Tasks : CallLock(t)
    \/ \E t \in Tasks : CallSeq(t)
    \/ \E t \in Tasks, outcome \in ConcAppendOutcomes : CallAppend(t, outcome)
    \/ \E t \in Tasks : CallApply(t)

SpecConc == Init /\ [][NextConc]_vars

(***************************************************************************)
(* main.rs: submit_order on two symbols                                    *)
(***************************************************************************)
\* on each of two symbols, an order that rests and one that crosses it and
\* rests with its remainder
PairRequests ==
    {[symbol |-> sym, side |-> SIDE_SELL, price |-> 1, qty |-> 1] :
        sym \in {<<"A">>, <<" ", "B", " ">>}}
    \cup {[symbol |-> sym, side |-> SIDE_BUY, price |-> 1, qty |-> 2] :
        sym \in {<<"A">>, <<" ", "B", " ">>}}

NextPair ==
    \E o \in PairRequests : SubmitAccepted(o, MaxPairAdds)

SpecPair == Init /\ [][NextPair]_vars

(***************************************************************************)
(* main.rs: get_recent_trades called by a client that follows one tape     *)
(*                                                                         *)
(* The client keeps a cursor, 0 at first, passes it as after_trade_id and  *)
(* sets it to the last_trade_id of the response.  query holds its last     *)
(* call and response, and in received every trade it was handed so far.    *)
(***************************************************************************)
CursorSymbol == <<" ", "A">>
CursorLimits == {1, 2}

CursorOf(q) == IF q.kind = "cursor" THEN q.last_trade_id ELSE 0
ReceivedOf(q) == IF q.kind = "cursor" THEN q.received ELSE <<>>

\* one get_recent_trades call of the client
ClientPoll(limit) ==
    /\ Running
    /\ MutexSound
    /\ phase \notin HookHolds
    /\ LET after_trade_id == CursorOf(query)
           r == recent_trades(trades, Trim(CursorSymbol), after_trade_id,
                              effective_limit(limit))
       IN query' = [kind |-> "cursor", symbol |-> CursorSymbol,
                    after_trade_id |-> after_trade_id, limit |-> limit,
                    status |-> "ok", trades |-> r.trades,
                    last_trade_id |-> r.last_trade_id,
                    received |-> ReceivedOf(query) \o r.trades]
    /\ UNCHANGED <<mem, disk, hist, phase, end_kind, resp, calls, apply_order>>

NextCursor ==
    \/ \E o \in PairRequests : SubmitAccepted(o, MaxCursorAdds)
    \/ \E limit \in CursorLimits : ClientPoll(limit)

\* the client goes on calling
SpecCursor ==
    Init /\ [][NextCursor]_vars /\ WF_vars(\E limit \in CursorLimits : ClientPoll(limit))

(***************************************************************************)
(* main.rs: the shutdown hook step by step, beside the server tasks        *)
(*                                                                         *)
(* The hook is the future given to serve_with_shutdown: the server goes on *)
(* taking requests until that future returns, and then answers the calls   *)
(* in flight before main returns.  While the hook runs, phase tells where  *)
(* it is: "hook_locked" (it holds the state mutex), "hook_written" (it     *)
(* holds the mutex and write_snapshot has succeeded); "draining" once it   *)
(* has returned.                                                           *)
(***************************************************************************)
\* the state mutex is free of the server tasks and of the hook
MutexFree_tasks(cs, ph) == LockFree(cs)
MutexFree(cs, ph) == LockFree(cs) /\ ph \notin HookHolds

HookRequests ==
    {[symbol |-> <<"A">>, side |-> SIDE_BUY, price |-> 1, qty |-> 2],
     [symbol |-> <<"A">>, side |-> SIDE_SELL, price |-> 1, qty |-> 1]}
HookAppendOutcomes == {"ok"} \cup AppendFailures

\* a task receives a request while the server takes requests
HookCallBegin(t, o) ==
    /\ phase \in {"serving"} \cup HookHolds
    /\ calls[t].pc = "idle"
    /\ Validate(o) = "ok"
    /\ seq + Cardinality({u \in Tasks : calls[u].pc \in {"validated", "locked"}})
          < MaxCalls
    /\ calls' = [calls EXCEPT ![t] = [pc |-> "validated", o |-> o, s |-> 0]]
    /\ UNCHANGED <<mem, disk, hist, phase, end_kind, resp, apply_order, query>>

\* with_state: the task takes the state mutex
HookCallLock(t) ==
    /\ calls[t].pc = "validated"
    /\ MutexFree(calls, phase)
    /\ calls' = [calls EXCEPT ![t].pc = "locked"]
    /\ UNCHANGED <<mem, disk, hist, phase, end_kind, resp, apply_order, query>>

\* ctrl_c().await returned and state_for_shutdown.lock() succeeded
HookLock ==
    /\ phase = "serving"
    /\ MutexFree(calls, phase)
    /\ phase' = "hook_locked"
    /\ UNCHANGED <<mem, disk, hist, end_kind, resp, calls, apply_order, query>>

\* wal_for_shutdown.write_snapshot(&st): on failure the hook returns
HookWriteSnapshot(ok) ==
    /\ phase = "hook_locked"
    /\ IF ok
       THEN /\ \E ord \in Orderings(DOMAIN books) :
                  snapshot' = MakeSnapshot(seq, books, ord)
            /\ snap_covers' = applied
            /\ phase' = "hook_written"
       ELSE /\ UNCHANGED <<snapshot, snap_covers>>
            /\ phase' = "draining"
    /\ UNCHANGED <<mem, wal, acked, applied, last_accepted, end_kind, resp,
                   calls, apply_order, query>>

\* wal_for_shutdown.truncate_wal(), then the hook returns and the guard drops
HookTruncate(ok) ==
    /\ phase = "hook_written"
    /\ wal' = IF ok THEN truncate_wal(wal) ELSE wal
    /\ phase' = "draining"
    /\ UNCHANGED <<mem, snapshot, hist, end_kind, resp, calls, apply_order, query>>

\* every call in flight is answered and main returns
HookExit ==
    /\ \A t \in Tasks : calls[t].pc = "idle"
    /\ Exit

NextHook ==
    \/ \E t \in Tasks, o \in HookRequests : HookCallBegin(t, o)
    \/ \E t \in Tasks : HookCallLock(t)
    \/ \E t \in Tasks : CallSeq(t)
    \/ \E t \in Tasks, outcome \in HookAppendOutcomes : CallAppend(t, outcome)
    \/ \E t \in Tasks : CallApply(t)
    \/ HookLock
    \/ \E ok \in BOOLEAN : HookWriteSnapshot(ok)
    \/ \E ok \in BOOLEAN : HookTruncate(ok)
    \/ HookExit
    \/ Startup

SpecHook == Init /\ [][NextHook]_vars

(***************************************************************************)
(* Helpers of the properties                                               *)
(***************************************************************************)
\* the resting orders of one side of a book
RestingOrders(levels) ==
    UNION {{levels[p][j] : j \in 1..Len(levels[p])} : p \in DOMAIN levels}

RECURSIVE SumRemaining(_)
SumRemaining(S) ==
    IF S = {} THEN 0
    ELSE LET x == CHOOSE y \in S : TRUE
         IN x.remaining_qty + SumRemaining(S \ {x})

\* remaining quantity resting under sequence number s on one side (0 if none)
RemainingOf(levels, s) == SumRemaining({ro \in RestingOrders(levels) : ro.seq = s})

\* quantity of the fills that name maker s
RECURSIVE FilledOf(_, _)
FilledOf(fills, s) ==
    IF fills = <<>> THEN 0
    ELSE (IF Head(fills).maker_seq = s THEN Head(fills).qty ELSE 0)
           + FilledOf(Tail(fills), s)

BookOf(bks, symbol) == IF symbol \in DOMAIN bks THEN bks[symbol] ELSE NewBook
OwnSide(book, entry) == IF entry.side = "BUY" THEN book.bids ELSE book.asks
OppositeSide(book, entry) == IF entry.side = "BUY" THEN book.asks ELSE book.bids

\* this step is a submit_order call that was accepted
AcceptedStep == resp'.status = "ok" /\ Len(acked') = Len(acked) + 1

HasGarbage(w) == \E i \in 1..Len(w.lines) : w.lines[i].bytes = "garbage"

\* entry e can be read back from the files: it is a line of the WAL that
\* parses to e, or the snapshot on disk covers its sequence number
Durable(e) ==
    \/ \E i \in 1..Len(wal.lines) :
          ParseLine(wal.lines[i]).ok /\ ParseLine(wal.lines[i]).entry = e
    \/ snapshot.present /\ e.seq <= snapshot.seq

(***************************************************************************)
(* C1 (SpecSubmit).  From the empty engine, whatever valid, invalid and    *)
(* failing submit_order calls are made, the accepted_seq values of the     *)
(* successful calls are 1, 2, ..., N in call order.                        *)
(***************************************************************************)
C1_MonotonicSeq == \A i \in 1..Len(acked) : acked[i].seq = i

\* two calls succeeded, the last call succeeded, and an earlier append failed
\* after writing bytes
C1_Witness ==
    /\ Len(acked) >= 2
    /\ resp.status = "ok"
    /\ HasGarbage(wal)

(***************************************************************************)
(* C2 (SpecSubmit).  A submit_order whose WAL append fails answers         *)
(* "unavailable" and leaves seq, the books, next_trade_id and the trade    *)
(* tapes as they were; the next successful call gets the sequence number   *)
(* the failed one would have had.                                          *)
(***************************************************************************)
C2_FailedAppendLeavesState ==
    [][/\ resp'.status = "unavailable" =>
            /\ seq' = seq
            /\ books' = books
            /\ next_trade_id' = next_trade_id
            /\ trades' = trades
       /\ (resp.status = "unavailable" /\ AcceptedStep) =>
            resp'.accepted_seq = seq + 1]_vars

\* an append failed in an engine that holds a book and a trade
C2_Witness ==
    /\ resp.status = "unavailable"
    /\ seq >= 2
    /\ next_trade_id >= 1
    /\ DOMAIN books # {}

(***************************************************************************)
(* C3 (Spec).  WAL before apply: every order whose effect is in the books  *)
(* a reader can see is durable: it has a line in the WAL or the snapshot   *)
(* on disk covers its seq.                                                 *)
(***************************************************************************)
C3_VisibleIsDurable == Running => \A e \in applied : Durable(e)

(***************************************************************************)
(* C4 (Spec).  Replay equivalence: when a process ends outside every       *)
(* handler and a new one restores snapshot + WAL, the restore succeeds and *)
(* seq and every book are those the dead process had.                      *)
(***************************************************************************)
C4_ReplayEquivalence ==
    [][(phase = "down" /\ end_kind = "idle" /\ phase' # "down") =>
          (phase' = "serving" /\ seq' = seq /\ books' = books)]_vars

(***************************************************************************)
(* C5 (Spec).  Snapshot round trip: for every state the engine reaches,    *)
(* the snapshot write_snapshot produces (in any iteration order of the     *)
(* book map), restored into the empty state with an empty WAL, gives the   *)
(* same seq and the same books.                                            *)
(***************************************************************************)
C5_SnapshotRoundTrip ==
    \A ord \in Orderings(DOMAIN books) :
        LET r == replay_into_with_stats(MakeSnapshot(seq, books, ord), EmptyWal)
        IN r.ok /\ r.seq = seq /\ r.books = books

\* a process serving the state it restored from a snapshot and an empty WAL,
\* with two orders queued at one price level
C5_Witness ==
    /\ phase = "serving"
    /\ snapshot.present
    /\ snapshot.seq = seq
    /\ wal = EmptyWal
    /\ \E sym \in DOMAIN books : \E p \in DOMAIN books[sym].asks :
          Len(books[sym].asks[p]) >= 2

(***************************************************************************)
(* C6 (Spec).  Log compaction is crash-safe: the WAL is emptied only in a  *)
(* step that leaves the snapshot of the current state on disk, and when    *)
(* the process is killed inside the shutdown hook the next restore         *)
(* succeeds with the seq and the books the hook saw.                       *)
(***************************************************************************)
C6_CompactionCrashSafe ==
    [][/\ (wal.lines # <<>> /\ wal'.lines = <<>>) =>
            \E ord \in Orderings(DOMAIN books) :
                snapshot' = MakeSnapshot(seq, books, ord)
       /\ (phase = "down" /\ end_kind = "in_hook" /\ phase' # "down") =>
            (phase' = "serving" /\ seq' = seq /\ books' = books)]_vars

(***************************************************************************)
(* C7 (Spec).  When the process is killed at any point of submit_order,    *)
(* the next startup's restore completes without error and its state        *)
(* contains every order that was acknowledged to a client.                 *)
(***************************************************************************)
C7_CrashInSubmitRecoverable ==
    [][(phase = "down" /\ end_kind = "in_submit" /\ phase' # "down") =>
          /\ phase' = "serving"
          /\ \A i \in 1..Len(acked) : acked[i] \in applied']_vars

(***************************************************************************)
(* C8 (Spec).  Non-crossing at rest: in every state, after submits and     *)
(* after restores, a book with bids and asks has its greatest bid price    *)
(* strictly below its smallest ask price.                                  *)
(***************************************************************************)
C8_NonCrossing ==
    \A sym \in DOMAIN books :
        (DOMAIN books[sym].bids # {} /\ DOMAIN books[sym].asks # {}) =>
            SetMax(DOMAIN books[sym].bids) < SetMin(DOMAIN books[sym].asks)

\* a restored process whose book has a bid at price 0 and an ask
C8_Witness ==
    /\ phase = "serving"
    /\ snapshot.present
    /\ \E sym \in DOMAIN books :
          /\ 0 \in DOMAIN books[sym].bids
          /\ DOMAIN books[sym].asks # {}

(***************************************************************************)
(* C9 (SpecBook).  Conservation of quantity in one add: the quantities of  *)
(* the fills plus the remaining quantity that rests for the order equal    *)
(* the order's qty, every fill names a maker of the opposite side, and     *)
(* every maker loses exactly the quantity of the fills that name it.       *)
(***************************************************************************)
C9_Conservation ==
    [][AcceptedStep =>
        LET o == resp'.order
            pre == BookOf(books, o.symbol)
            post == BookOf(books', o.symbol)
            fills == resp'.fills
        IN /\ SumQty(fills) + RemainingOf(OwnSide(post, o), o.seq) = o.qty
           /\ \A i \in 1..Len(fills) :
                 \E m \in RestingOrders(OppositeSide(pre, o)) :
                     m.seq = fills[i].maker_seq
           /\ \A m \in RestingOrders(OppositeSide(pre, o)) :
                 m.remaining_qty - RemainingOf(OppositeSide(post, o), m.seq)
                     = FilledOf(fills, m.seq)]_vars

\* an order that was filled in part and rests with the remainder
C9_Witness ==
    /\ resp.status = "ok"
    /\ Len(resp.fills) >= 1
    /\ RemainingOf(OwnSide(BookOf(books, resp.order.symbol), resp.order),
                   resp.accepted_seq) >= 1

(***************************************************************************)
(* C10 (SpecBook).  Maker price: every fill carries the price of the level *)
(* its maker rested at, which is the maker's limit price; a Buy taker      *)
(* never pays more than its limit, a Sell taker never gets less.           *)
(***************************************************************************)
C10_MakerPrice ==
    [][AcceptedStep =>
        LET o == resp'.order
            opp == OppositeSide(BookOf(books, o.symbol), o)
            fills == resp'.fills
        IN \A i \in 1..Len(fills) :
              /\ \E p \in DOMAIN opp : \E j \in 1..Len(opp[p]) :
                    /\ opp[p][j].seq = fills[i].maker_seq
                    /\ opp[p][j].price = p
                    /\ fills[i].price = p
              /\ o.side = "BUY" => fills[i].price <= o.price
              /\ o.side = "SELL" => fills[i].price >= o.price]_vars

\* a Buy filled below its limit price
C10_Witness ==
    /\ resp.status = "ok"
    /\ resp.order.side = "BUY"
    /\ \E i \in 1..Len(resp.fills) : resp.fills[i].price < resp.order.price

(***************************************************************************)
(* C11 (SpecBook).  FIFO within a level: among the fills of one add that   *)
(* share a price, maker_seq is strictly increasing, and when a maker is    *)
(* filled every maker of its level with a lower seq has no quantity left.  *)
(***************************************************************************)
C11_FifoWithinLevel ==
    [][AcceptedStep =>
        LET o == resp'.order
            pre == OppositeSide(BookOf(books, o.symbol), o)
            post == OppositeSide(BookOf(books', o.symbol), o)
            fills == resp'.fills
        IN /\ \A i, j \in 1..Len(fills) :
                 (i < j /\ fills[i].price = fills[j].price) =>
                     fills[i].maker_seq < fills[j].maker_seq
           /\ \A i \in 1..Len(fills) :
                 \A m \in RestingOrders(pre) :
                     (m.price = fills[i].price /\ m.seq < fills[i].maker_seq) =>
                         RemainingOf(post, m.seq) = 0]_vars

\* one add filled two makers of the same level
C11_Witness ==
    /\ resp.status = "ok"
    /\ \E i, j \in 1..Len(resp.fills) :
          /\ i < j
          /\ resp.fills[i].price = resp.fills[j].price
          /\ resp.fills[i].maker_seq # resp.fills[j].maker_seq

(***************************************************************************)
(* C12 (SpecBook).  Sweep order: the fills of one add are in non-          *)
(* decreasing price order for a Buy and non-increasing price order for a   *)
(* Sell, and when a level is matched every strictly better level of the    *)
(* opposite side has been consumed and deleted.                            *)
(***************************************************************************)
C12_SweepOrder ==
    [][AcceptedStep =>
        LET o == resp'.order
            pre == OppositeSide(BookOf(books, o.symbol), o)
            post == OppositeSide(BookOf(books', o.symbol), o)
            fills == resp'.fills
        IN /\ \A i, j \in 1..Len(fills) :
                 i < j => IF o.side = "BUY"
                          THEN fills[i].price <= fills[j].price
                          ELSE fills[i].price >= fills[j].price
           /\ \A i \in 1..Len(fills) : \A p \in DOMAIN pre :
                 (IF o.side = "BUY" THEN p < fills[i].price ELSE p > fills[i].price)
                     => p \notin DOMAIN post]_vars

\* one add swept two price levels
C12_Witness ==
    /\ resp.status = "ok"
    /\ \E i, j \in 1..Len(resp.fills) : resp.fills[i].price # resp.fills[j].price

(***************************************************************************)
(* C13 (Spec).  In every run, restarts and restores included, every fill   *)
(* of a submit and every fill the WAL replay re-executes has maker_seq <   *)
(* taker_seq; no resting order carries a seq above the engine's seq.       *)
(***************************************************************************)
C13_MakerBeforeTaker ==
    [][/\ AcceptedStep =>
            /\ \A i \in 1..Len(resp'.fills) :
                  /\ resp'.fills[i].taker_seq = resp'.accepted_seq
                  /\ resp'.fills[i].maker_seq < resp'.fills[i].taker_seq
            /\ \A sym \in DOMAIN books' :
                  \A ro \in RestingOrders(books'[sym].bids)
                               \cup RestingOrders(books'[sym].asks) :
                      ro.seq <= seq'
       /\ (phase = "down" /\ phase' = "serving") =>
             LET refills == replay_into_with_stats(snapshot, wal).refills
             IN \A i \in 1..Len(refills) :
                    refills[i].maker_seq < refills[i].taker_seq]_vars

\* a process that started from a snapshot fills a maker the snapshot restored
C13_Witness ==
    /\ phase = "serving"
    /\ snapshot.present
    /\ resp.status = "ok"
    /\ \E i \in 1..Len(resp.fills) : resp.fills[i].maker_seq <= snapshot.seq

(***************************************************************************)
(* C19 (Spec).  Restore does not regenerate trades: whatever fills the WAL *)
(* replay re-executed, a restored process starts with empty trade tapes    *)
(* and next_trade_id 0, and the first trade it records has trade_id 1.     *)
(***************************************************************************)
C19_RestoreNoTrades ==
    [][/\ (phase = "down" /\ phase' = "serving") =>
             (trades' = EmptyMap /\ next_trade_id' = 0)
       /\ (AcceptedStep /\ trades = EmptyMap /\ resp'.fills # <<>>) =>
             trades'[resp'.order.symbol][1].trade_id = 1]_vars

\* a process just restored from files whose WAL replay re-executed a fill
C19_Witness ==
    /\ phase = "serving"
    /\ resp.status = "none"
    /\ replay_into_with_stats(snapshot, wal).refills # <<>>
    /\ next_trade_id = 0
    /\ trades = EmptyMap

(***************************************************************************)
(* C18 (Spec).  After a restore, seq is the greatest sequence number       *)
(* accepted before the restart; every accepted submit returns the greatest *)
(* accepted number plus 1, so the numbers returned never repeat and leave  *)
(* no gap, restarts included.                                              *)
(***************************************************************************)
C18_SeqAcrossRestarts ==
    [][/\ (phase = "down" /\ phase' = "serving") => seq' = last_accepted
       /\ AcceptedStep => resp'.accepted_seq = last_accepted + 1
       /\ \A i, j \in 1..Len(acked') : i < j => acked'[i].seq < acked'[j].seq]_vars

\* the seq of the entries of the WAL, line by line
WalSeqs(w) == [i \in 1..Len(w.lines) |-> ParseLine(w.lines[i]).entry.seq]

(***************************************************************************)
(* C14 (SpecConc).  Under every interleaving of concurrent submit_order    *)
(* calls at most one call is between taking its seq and applying its       *)
(* order, the lines of the WAL are in strictly ascending seq order, and    *)
(* that order is the order in which the orders were applied to the books   *)
(* (the call inside the closure may have appended and not yet applied).    *)
(***************************************************************************)
C14_SingleWriterOrder ==
    LET inside == {t \in Tasks : calls[t].pc \in InClosure}
        pending == {t \in Tasks : calls[t].pc = "appended"}
    IN /\ Cardinality(inside) <= 1
       /\ \A i \in 1..Len(wal.lines) : ParseLine(wal.lines[i]).ok
       /\ \A i, j \in 1..Len(wal.lines) : i < j => WalSeqs(wal)[i] < WalSeqs(wal)[j]
       /\ IF pending = {}
          THEN WalSeqs(wal) = apply_order
          ELSE \E t \in pending : WalSeqs(wal) = Append(apply_order, calls[t].s)

\* C14 (SpecConc), the part about the mutex: at most one call is inside the
\* closure of with_state, and the orders are applied in ascending seq
C14_MutualExclusion ==
    /\ Cardinality({t \in Tasks : calls[t].pc \in InClosure}) <= 1
    /\ \A i, j \in 1..Len(apply_order) : i < j => apply_order[i] < apply_order[j]

\* one call has appended its entry and not yet applied it while the other
\* call waits for the mutex, after an earlier order was applied
C14_Witness ==
    /\ Len(apply_order) >= 1
    /\ \E t, u \in Tasks :
          /\ calls[t].pc = "appended"
          /\ calls[u].pc = "validated"

\* the best level of one side, from the resting orders themselves: the price
\* no resting order of the side beats and the sum of what rests at it,
\* <<0, 0>> for a side without resting orders
BestLevel(levels, is_bid) ==
    LET ros == RestingOrders(levels)
    IN IF ros = {} THEN <<0, 0>>
       ELSE LET best == CHOOSE ro \in ros :
                            \A other \in ros :
                                IF is_bid THEN other.price <= ro.price
                                ELSE other.price >= ro.price
            IN <<best.price, SumRemaining({ro \in ros : ro.price = best.price})>>

(***************************************************************************)
(* C20 (SpecRead).  top_of_book gives, for each side by itself, (0, 0)     *)
(* when the side has no level, else the greatest bid price (smallest ask   *)
(* price) and the sum of remaining_qty of the orders resting at it; a      *)
(* symbol without a book gives (0, 0, 0, 0).                               *)
(***************************************************************************)
C20_TopOfBook ==
    [][(query' # query /\ query'.kind = "top_of_book" /\ query'.status = "ok") =>
          LET symbol == Trim(query'.symbol)
              top == query'.top
          IN IF symbol \notin DOMAIN books THEN top = <<0, 0, 0, 0>>
             ELSE LET bid == BestLevel(books[symbol].bids, TRUE)
                      ask == BestLevel(books[symbol].asks, FALSE)
                  IN top = <<bid[1], bid[2], ask[1], ask[2]>>]_vars

\* a read of a book with two orders queued at the best bid and no ask
C20_Witness ==
    /\ query.kind = "top_of_book"
    /\ query.status = "ok"
    /\ Trim(query.symbol) \in DOMAIN books
    /\ LET book == books[Trim(query.symbol)]
       IN /\ DOMAIN book.asks = {}
          /\ query.top[1] \in DOMAIN book.bids
          /\ Len(book.bids[query.top[1]]) >= 2
          /\ query.top[2] >= 2
          /\ query.top[3] = 0 /\ query.top[4] = 0

\* the tape of a symbol, empty when it has none
TapeOf(tapes, symbol) == IF symbol \in DOMAIN tapes THEN tapes[symbol] ELSE <<>>

\* the trades an accepted call adds to the tape of a symbol: one per fill on
\* the symbol of the order, none on any other
AddedTo(symbol) == IF symbol = resp'.order.symbol THEN Len(resp'.fills) ELSE 0

\* C15: every tape holds at most 10 000 trades in every reachable state, and
\* an accepted call whose trades overflow a tape removes exactly the overflow
\* from the front: the trades kept are the old ones in their order without
\* the first ones, followed by the new ones, and every trade removed has a
\* smaller trade_id than every trade kept.
C15_TapeCap ==
    /\ [](\A symbol \in DOMAIN trades : Len(trades[symbol]) <= 10000)
    /\ [][AcceptedStep =>
            \A symbol \in DOMAIN trades' :
                LET old == TapeOf(trades, symbol)
                    new == trades'[symbol]
                    m == AddedTo(symbol)
                    over == Len(old) + m - 10000
                    drop == IF over > 0 THEN over ELSE 0
                IN /\ Len(new) = Len(old) + m - drop
                   /\ SubSeq(new, 1, Len(old) - drop) = SubSeq(old, drop + 1, Len(old))
                   /\ \A i \in 1..drop : \A j \in 1..Len(new) :
                          old[i].trade_id < new[j].trade_id
                   /\ \A i \in 1..m :
                          new[Len(new) - m + i].trade_id = next_trade_id + i]_vars

\* a full tape whose oldest trades were evicted by a call with two fills
C15_Witness ==
    /\ <<"A">> \in DOMAIN trades
    /\ Len(trades[<<"A">>]) = MAX_TRADES_PER_SYMBOL
    /\ trades[<<"A">>][1].trade_id = 2
    /\ Len(resp.fills) = 2
    /\ next_trade_id = MAX_TRADES_PER_SYMBOL + 1

\* trade_ids strictly increasing along every tape, no trade_id on two tapes,
\* none above the counter
TradeIdsInOrder(tapes, counter) ==
    /\ \A symbol \in DOMAIN tapes :
           LET q == tapes[symbol]
           IN /\ \A i \in 1..(Len(q) - 1) : q[i].trade_id < q[i + 1].trade_id
              /\ Len(q) > 0 => q[Len(q)].trade_id <= counter
    /\ \A s1 \in DOMAIN tapes : \A s2 \in (DOMAIN tapes) \ {s1} :
           \A i \in 1..Len(tapes[s1]) : \A j \in 1..Len(tapes[s2]) :
               tapes[s1][i].trade_id # tapes[s2][j].trade_id

\* C17: an accepted call with m fills raises next_trade_id by m and leaves, as
\* the last m trades of the tape of the order's symbol, one Trade per fill in
\* the order of the fills: trade_id the next values of the counter, price, qty,
\* maker_seq and taker_seq those of the fill, taker_side the side of the
\* request; it adds no other trade to any tape; trade_ids are strictly
\* increasing along every tape and no trade_id is on two tapes.
C17_TradePerFill ==
    /\ []TradeIdsInOrder(trades, next_trade_id)
    /\ [][\A o \in TapeRequests :
            SubmitAccepted(o, (2 * LoadOf(TapeLoads)) + MaxTapeAdds) =>
                LET symbol == Trim(o.symbol)
                    fills == resp'.fills
                    m == Len(fills)
                    new == TapeOf(trades', symbol)
                IN /\ next_trade_id' = next_trade_id + m
                   /\ Len(new) >= m
                   /\ \A i \in 1..m :
                          new[Len(new) - m + i] =
                              [trade_id |-> next_trade_id + i, symbol |-> symbol,
                               price |-> fills[i].price, qty |-> fills[i].qty,
                               maker_seq |-> fills[i].maker_seq,
                               taker_seq |-> fills[i].taker_seq,
                               taker_side |-> o.side]
                   /\ Cardinality({i \in 1..Len(new) :
                                      new[i].trade_id > next_trade_id}) = m
                   /\ \A other \in (DOMAIN trades') \ {symbol} :
                          other \in DOMAIN trades /\ trades'[other] = trades[other]]_vars

\* C16: a successful get_recent_trades answers with exactly the first
\* min(effective limit, number of matches) trades of the symbol's tape whose
\* trade_id is above after_trade_id, in ascending trade_id order, where the
\* effective limit is 50 for limit <= 0 and min(limit, 1000) otherwise: the
\* answer has that length, its trade_ids ascend, and it is the list of all
\* matches of the tape up to and including the last trade it holds.
\* last_trade_id is the trade_id of that last trade, or after_trade_id when
\* the answer is empty (no match, or no tape for the symbol).
C16_RecentTrades ==
    [][(query' # query /\ query'.kind = "recent_trades" /\ query'.status = "ok") =>
        LET tape == TapeOf(trades, Trim(query'.symbol))
            after == query'.after_trade_id
            out == query'.trades
            eff == IF query'.limit <= 0 THEN 50 ELSE MinOf(query'.limit, 1000)
        IN /\ Len(out) =
                MinOf(eff, Cardinality({i \in 1..Len(tape) : tape[i].trade_id > after}))
           /\ \A j \in 1..(Len(out) - 1) : out[j].trade_id < out[j + 1].trade_id
           /\ out # <<>> =>
                \E c \in 1..Len(tape) :
                    /\ tape[c] = out[Len(out)]
                    /\ out = SelectSeq(SubSeq(tape, 1, c),
                                       LAMBDA t : t.trade_id > after)
           /\ query'.last_trade_id =
                IF out = <<>> THEN after ELSE out[Len(out)].trade_id]_vars

\* an answer cut at the cap: limit above 1 000, after_trade_id = 1, a tape
\* with more than 1 000 later trades; the answer starts at trade 2
C16_Witness ==
    /\ query.kind = "recent_trades"
    /\ query.status = "ok"
    /\ query.limit > MAX_TRADES_LIMIT
    /\ query.after_trade_id = 1
    /\ Len(query.trades) = MAX_TRADES_LIMIT
    /\ query.trades[1].trade_id = 2
    /\ query.last_trade_id = MAX_TRADES_LIMIT + 1
    /\ Len(TapeOf(trades, <<"A">>)) > MAX_TRADES_LIMIT + 1

\* the prices at which orders rest on one side
LivePrices(levels) == {p \in DOMAIN levels : levels[p] # <<>>}

\* one side of a depth answer against the book: as many entries as there are
\* live levels, up to count; every entry a live level; prices strictly
\* descending (bids) or ascending (asks); the live levels at least as good as
\* the last entry are as many as the entries, so none is left out and the
\* list starts at the best level; each qty the sum of remaining_qty of the
\* orders resting at the price
DepthSideOk(out, levels, is_bid, count) ==
    /\ Len(out) = MinOf(count, Cardinality(LivePrices(levels)))
    /\ \A i \in 1..Len(out) :
           /\ out[i].price \in DOMAIN levels
           /\ levels[out[i].price] # <<>>
           /\ out[i].qty =
                  SumRemaining({levels[out[i].price][j] :
                                    j \in 1..Len(levels[out[i].price])})
    /\ \A i \in 1..(Len(out) - 1) :
           IF is_bid THEN out[i].price > out[i + 1].price
           ELSE out[i].price < out[i + 1].price
    /\ out # <<>> =>
           Cardinality({p \in LivePrices(levels) :
                           IF is_bid THEN p >= out[Len(out)].price
                           ELSE p <= out[Len(out)].price}) = Len(out)

\* C21: a successful get_book_depth lists per side min(L, number of live
\* levels) entries, L being 10 for levels <= 0 and min(levels, 100)
\* otherwise, bids in strictly descending and asks in strictly ascending
\* price from the best level on, each with the summed remaining_qty of its
\* price; a symbol without a book gives two empty lists.
C21_BookDepth ==
    [][(query' # query /\ query'.kind = "book_depth" /\ query'.status = "ok") =>
          LET book == BookOf(books, Trim(query'.symbol))
              count == IF query'.levels <= 0 THEN 10 ELSE MinOf(query'.levels, 100)
          IN /\ DepthSideOk(query'.bids, book.bids, TRUE, count)
             /\ DepthSideOk(query'.asks, book.asks, FALSE, count)]_vars

\* an answer cut at the cap on both sides of a book with more levels, whose
\* best bid level holds two orders
C21_Witness ==
    /\ query.kind = "book_depth"
    /\ query.status = "ok"
    /\ query.levels > MAX_DEPTH_LEVELS
    /\ Len(query.bids) = MAX_DEPTH_LEVELS
    /\ Len(query.asks) = MAX_DEPTH_LEVELS
    /\ query.bids[1].qty = 2
    /\ query.bids[1].price > query.bids[2].price
    /\ Cardinality(DOMAIN BookOf(books, Trim(query.symbol)).bids) > MAX_DEPTH_LEVELS

\* the requests the validation is to refuse
FailsValidation(o) ==
    \/ Trim(o.symbol) = <<>>
    \/ o.qty <= 0
    \/ o.price < 0
    \/ o.side = SIDE_UNSPECIFIED

\* C22: a step answered with invalid-argument leaves state.seq, the books,
\* the trade tapes, next_trade_id and the files as they were, and no request
\* with a blank symbol, qty <= 0, price < 0 or side unspecified is ever taken
\* past the validation: no step is its accepted call or its failed append.
C22_InvalidRejected ==
    [][/\ resp'.status = "invalid_argument" =>
              UNCHANGED <<seq, books, trades, next_trade_id, wal, snapshot>>
       /\ \A o \in Requests :
              FailsValidation(o) =>
                  /\ ~SubmitAccepted(o, MaxAdds)
                  /\ \A outcome \in AppendFailures :
                         ~SubmitUnavailable(o, outcome, MaxAdds)]_vars

\* a rejection by an engine that holds orders, trades and WAL lines
C22_Witness ==
    /\ resp.status = "invalid_argument"
    /\ seq >= 2
    /\ next_trade_id >= 1
    /\ Len(wal.lines) >= 2
    /\ books # EmptyMap

\* one side of a book holds no empty level and no order without quantity
SideWellFormed(levels) ==
    \A p \in DOMAIN levels :
        /\ levels[p] # <<>>
        /\ \A j \in 1..Len(levels[p]) : levels[p][j].remaining_qty > 0

\* C23: in every state, after every add call and after every restore, every
\* price level of every book has a non-empty queue and every resting order
\* has remaining_qty > 0: the call that empties a level has deleted it, the
\* call that fills a maker has removed it.
C23_BookWellFormed ==
    \A symbol \in DOMAIN books :
        /\ SideWellFormed(books[symbol].bids)
        /\ SideWellFormed(books[symbol].asks)

\* a restored engine whose only ask level was emptied and deleted by a buy
\* that rests with what it had left
C23_Witness ==
    /\ phase = "serving"
    /\ resp = NoResp
    /\ seq >= 2
    /\ <<"A">> \in DOMAIN books
    /\ DOMAIN books[<<"A">>].asks = {}
    /\ \E p \in DOMAIN books[<<"A">>].bids :
           books[<<"A">>].bids[p][1].remaining_qty = 1

\* the queues of one side hold their orders in strictly ascending seq
SideSeqAscending(levels) ==
    \A p \in DOMAIN levels :
        \A j \in 1..(Len(levels[p]) - 1) : levels[p][j].seq < levels[p][j + 1].seq

\* C24: in every state, those left by a snapshot load followed by the WAL
\* replay included, the orders of every price-level queue are in strictly
\* ascending seq from front to back.
C24_QueueSeqAscending ==
    \A symbol \in DOMAIN books :
        /\ SideSeqAscending(books[symbol].bids)
        /\ SideSeqAscending(books[symbol].asks)

\* an engine restored from a snapshot alone, with two orders in one queue
C24_Witness ==
    /\ phase = "serving"
    /\ resp = NoResp
    /\ snapshot.present
    /\ snapshot.seq = seq
    /\ wal.lines = <<>>
    /\ \E symbol \in DOMAIN books :
           \E p \in DOMAIN books[symbol].asks : Len(books[symbol].asks[p]) = 2

(***************************************************************************)
(* C25 (SpecRestore).  As stated: whenever snapshot.json does not parse,   *)
(* or some non-blank WAL line does not parse or carries a side other than  *)
(* "BUY" and "SELL", the startup aborts.                                   *)
(***************************************************************************)
SnapshotUnparsable(snap) == snap.present /\ ~snap.parses
LineUnparsable(line) == line.bytes = "garbage"
LineBadSide(line) == line.bytes = "object" /\ line.entry.side \notin {"BUY", "SELL"}
SeqCovered(snap) == IF snap.present THEN snap.seq ELSE 0

C25_AnyBadLineAborts ==
    [][(/\ phase = "down"
        /\ phase' # "down"
        /\ \/ SnapshotUnparsable(snapshot)
           \/ \E i \in 1..Len(wal.lines) :
                  LineUnparsable(wal.lines[i]) \/ LineBadSide(wal.lines[i]))
       => phase' = "failed"]_vars

(***************************************************************************)
(* C25 (SpecRestore), amended.  The startup aborts when snapshot.json      *)
(* does not parse, or some non-blank WAL line does not parse, or some WAL  *)
(* line with seq > snapshot.seq carries a side other than "BUY" and        *)
(* "SELL"; a line the snapshot covers is skipped whatever its side.  It    *)
(* aborts in no other case, but for a build with debug assertions that     *)
(* panics in add on a replayed entry.  A process whose startup aborted     *)
(* stays aborted and answers no submit and no read.                        *)
(***************************************************************************)
RestoreAborts(snap, w) ==
    \/ SnapshotUnparsable(snap)
    \/ \E i \in 1..Len(w.lines) :
          \/ LineUnparsable(w.lines[i])
          \/ LineBadSide(w.lines[i]) /\ w.lines[i].entry.seq > SeqCovered(snap)

C25_RestoreAborts ==
    /\ [](phase = "failed" => resp = NoResp /\ query = NoQuery)
    /\ [][/\ (phase = "down" /\ phase' # "down")
               => (/\ RestoreAborts(snapshot, wal) => phase' = "failed"
                   /\ phase' = "failed" =>
                         \/ RestoreAborts(snapshot, wal)
                         \/ Restore(snapshot, wal, TRUE).panicked)
          /\ (phase = "failed")
               => (phase' = "failed" /\ resp' = resp /\ query' = query)]_vars

\* a startup that aborted on a line of bad side behind a snapshot that
\* covers another such line
C25_Witness ==
    /\ phase = "failed"
    /\ snapshot.present /\ snapshot.parses
    /\ \E i, j \in 1..Len(wal.lines) :
          /\ LineBadSide(wal.lines[i]) /\ wal.lines[i].entry.seq <= snapshot.seq
          /\ LineBadSide(wal.lines[j]) /\ wal.lines[j].entry.seq > snapshot.seq
    /\ \A i \in 1..Len(wal.lines) : ~LineUnparsable(wal.lines[i])

(***************************************************************************)
(* C26 (SpecBook).  Resting rule of one add: with unfilled the order's qty *)
(* less the quantities of its fills, the order's own side changes only     *)
(* when unfilled > 0, and then by one RestingOrder appended at the back of *)
(* the queue of the order's price, carrying the order's seq, side and      *)
(* price and remaining_qty = unfilled; an order that does not cross the    *)
(* best opposite price has no fills and rests with its full qty.           *)
(***************************************************************************)
Crosses(o, opp) ==
    /\ DOMAIN opp # {}
    /\ IF o.side = "BUY" THEN SetMin(DOMAIN opp) <= o.price
       ELSE SetMax(DOMAIN opp) >= o.price

C26_RestingRule ==
    [][AcceptedStep =>
        LET o == resp'.order
            pre == BookOf(books, o.symbol)
            post == BookOf(books', o.symbol)
            own == OwnSide(pre, o)
            own2 == OwnSide(post, o)
            fills == resp'.fills
            unfilled == o.qty - SumQty(fills)
            ro == [seq |-> o.seq, side |-> IF o.side = "BUY" THEN "Buy" ELSE "Sell",
                   price |-> o.price, remaining_qty |-> unfilled]
            before == IF o.price \in DOMAIN own THEN own[o.price] ELSE <<>>
        IN /\ unfilled >= 0
           /\ unfilled = 0 => own2 = own
           /\ unfilled > 0 =>
                 /\ DOMAIN own2 = DOMAIN own \cup {o.price}
                 /\ own2[o.price] = Append(before, ro)
                 /\ \A p \in DOMAIN own : p # o.price => own2[p] = own[p]
           /\ ~Crosses(o, OppositeSide(pre, o)) =>
                 fills = <<>> /\ unfilled = o.qty /\ post # pre]_vars

\* an order that crossed nothing and rests with its full quantity behind an
\* earlier order of its level, opposite orders resting
C26_Witness ==
    /\ resp.status = "ok"
    /\ resp.fills = <<>>
    /\ LET o == resp.order
           book == BookOf(books, o.symbol)
           own == OwnSide(book, o)
       IN /\ DOMAIN OppositeSide(book, o) # {}
          /\ o.price \in DOMAIN own
          /\ Len(own[o.price]) >= 2
          /\ own[o.price][Len(own[o.price])].seq = o.seq
          /\ own[o.price][Len(own[o.price])].remaining_qty = o.qty

(***************************************************************************)
(* C27 (SpecHook), the parts about the mutex.  While the hook holds the    *)
(* mutex no call is inside the closure and nothing but the hook changes    *)
(* the state or the files; the snapshot it writes is the state at          *)
(* snapshot.seq, which holds every applied order and none above that seq.  *)
(***************************************************************************)
HookExcludesSubmits ==
    /\ phase \in HookHolds => LockFree(calls)
    /\ phase' \in HookHolds => LockFree(calls')
    /\ phase \in HookHolds =>
          /\ UNCHANGED <<mem, acked, applied>>
          /\ wal' # wal => phase = "hook_written" /\ wal' = EmptyWal

SnapshotIsState ==
    (phase = "hook_locked" /\ phase' = "hook_written") =>
        /\ snapshot'.seq = seq
        /\ apply_snapshot(snapshot').books = books
        /\ snap_covers' = applied
        /\ \A e \in applied : e.seq <= snapshot'.seq
        /\ \A i \in 1..Len(acked) : acked[i] \in applied

\* the truncation removes no entry with seq > snapshot.seq
TruncationCovered ==
    (phase = "hook_written" /\ wal' # wal) =>
        \A i \in 1..Len(wal.lines) :
            ParseLine(wal.lines[i]).ok =>
                ParseLine(wal.lines[i]).entry.seq <= snapshot.seq

\* a submit_order accepted after the hook wrote its snapshot is in the state
\* of the next restore
AcceptedAfterHookSurvive ==
    (phase = "down" /\ phase' # "down") =>
        \A i \in 1..Len(acked) :
            (snapshot.present /\ acked[i].seq > snapshot.seq) =>
                phase' = "serving" /\ acked[i] \in applied'

C27_HookAtomic ==
    [][HookExcludesSubmits /\ SnapshotIsState]_vars

\* the hook has written its snapshot and emptied the WAL while a call waits
\* for the mutex
C27_HookAtomic_Witness ==
    /\ phase = "draining"
    /\ snapshot.present /\ snapshot.seq >= 1
    /\ wal = EmptyWal
    /\ \E t \in Tasks : calls[t].pc = "validated"

(***************************************************************************)
(* C27 (SpecHook), the whole claim: the above, the truncation removes no   *)
(* WAL line with seq > snapshot.seq, and a submit_order accepted after the *)
(* hook released the mutex is in the state of the next restore.            *)
(***************************************************************************)
C27_HookAndSubmits ==
    [][/\ HookExcludesSubmits
       /\ SnapshotIsState
       /\ TruncationCovered
       /\ AcceptedAfterHookSurvive]_vars

(***************************************************************************)
(* C28 (SpecBook).  Conservation per symbol: in every state reached from   *)
(* the empty engine by submit_order calls, for every symbol the quantities *)
(* of its accepted orders add up to the remaining quantities resting in    *)
(* its book plus twice the quantities of the trades recorded for it.       *)
(***************************************************************************)
RECURSIVE AcceptedQty(_, _)
AcceptedQty(entries, symbol) ==
    IF entries = <<>> THEN 0
    ELSE (IF Head(entries).symbol = symbol THEN Head(entries).qty ELSE 0)
           + AcceptedQty(Tail(entries), symbol)

RestingQty(book) ==
    SumRemaining(RestingOrders(book.bids)) + SumRemaining(RestingOrders(book.asks))

SymbolsSeen == {acked[i].symbol : i \in 1..Len(acked)} \cup DOMAIN books \cup DOMAIN trades

C28_SymbolConservation ==
    \A symbol \in SymbolsSeen :
        AcceptedQty(acked, symbol)
            = RestingQty(BookOf(books, symbol)) + 2 * SumQty(TapeOf(trades, symbol))

\* a symbol with three accepted orders, two trades and a resting remainder
C28_Witness ==
    \E symbol \in DOMAIN trades :
        /\ Len(trades[symbol]) >= 2
        /\ Cardinality({i \in 1..Len(acked) : acked[i].symbol = symbol}) >= 3
        /\ RestingQty(BookOf(books, symbol)) >= 1

(***************************************************************************)
(* C29 (SpecPair).  Isolation of the symbols: an accepted submit_order     *)
(* leaves the book and the trade tape of every symbol other than its own   *)
(* as they were, and in every state the book of a symbol is the one        *)
(* OrderBook::add builds from the accepted orders of that symbol alone,    *)
(* taken in their order with their sequence numbers.                       *)
(***************************************************************************)
RECURSIVE OwnBook(_, _, _)
OwnBook(entries, symbol, book) ==
    IF entries = <<>> THEN book
    ELSE LET e == Head(entries)
         IN OwnBook(Tail(entries), symbol,
                IF e.symbol = symbol
                THEN add(book, [seq |-> e.seq, side |-> BookSideOfStr(e.side),
                                price |-> e.price, qty |-> e.qty], FALSE).book
                ELSE book)

C29_SymbolIsolation ==
    /\ [](\A symbol \in DOMAIN books : books[symbol] = OwnBook(acked, symbol, NewBook))
    /\ [][AcceptedStep =>
            /\ DOMAIN books' = DOMAIN books \cup {resp'.order.symbol}
            /\ DOMAIN trades' \subseteq DOMAIN trades \cup {resp'.order.symbol}
            /\ \A symbol \in (DOMAIN books \cup DOMAIN trades) \ {resp'.order.symbol} :
                  /\ symbol \in DOMAIN books => books'[symbol] = books[symbol]
                  /\ symbol \in DOMAIN trades =>
                        symbol \in DOMAIN trades' /\ trades'[symbol] = trades[symbol]]_vars

\* an order that traded on one symbol while the other symbol has a resting
\* order and a trade on its tape
C29_Witness ==
    /\ resp.status = "ok"
    /\ resp.fills # <<>>
    /\ \E symbol \in (DOMAIN books \cap DOMAIN trades) \ {resp.order.symbol} :
          /\ RestingQty(books[symbol]) >= 1
          /\ Len(trades[symbol]) >= 1

(***************************************************************************)
(* C30 (SpecCursor).  Cursor completeness: in one process whose tape       *)
(* evicts nothing, a client that follows the tape of a symbol from cursor  *)
(* 0 has, at every moment, been handed exactly the trades of the tape up   *)
(* to its cursor, each once and in ascending trade_id; its cursor never    *)
(* decreases; and every trade that reaches the tape is handed to it in the *)
(* end.                                                                    *)
(***************************************************************************)
CursorTape == TapeOf(trades, Trim(CursorSymbol))

ReceivedUpToCursor ==
    LET received == ReceivedOf(query)
    IN /\ received = SelectSeq(CursorTape, LAMBDA t : t.trade_id <= CursorOf(query))
       /\ \A i, j \in 1..Len(received) :
             i < j => received[i].trade_id < received[j].trade_id

C30_CursorCompleteness ==
    /\ []ReceivedUpToCursor
    /\ [][CursorOf(query') >= CursorOf(query)]_vars
    /\ []<>(ReceivedOf(query) = CursorTape)

\* the client has read two trades in two calls, a trade of another symbol
\* numbered between them
C30_Witness ==
    /\ query.kind = "cursor"
    /\ Len(query.received) = 2
    /\ Len(query.trades) = 1
    /\ query.received[2].trade_id > query.received[1].trade_id + 1
    /\ query.after_trade_id = query.received[1].trade_id

====
